---- MODULE Spec2Model ----
(***************************************************************************)
(* Model of the tariff-plan reader (TpReader) of cgrates and of the        *)
(* RatingPlan rate-interval merge.                                         *)
(*                                                                         *)
(* The reader owns one in-memory map per entity kind, fills them from a    *)
(* LoadReader (the source) and writes them to a DataDB (the store).  Each  *)
(* group of operations has its own specification over the shared state:    *)
(*   SpecLoadAll  the LoadAll orchestration                                *)
(*   SpecRP       RatingPlan.AddRateInterval and LoadRatingPlans            *)
(*   SpecDest     LoadDestinations and the reverse prefix index             *)
(*   SpecAcc      LoadAccountActions on a reader with action plans          *)
(*   SpecWrite    WriteToDatabase on a loaded reader                        *)
(*   SpecAAF      LoadAccountActionsFiltered                                *)
(*   SpecRPF      LoadRatingPlansFiltered                                   *)
(*   SpecReader   Init and the load-all steps that resolve references       *)
(*   SpecDF       LoadDestinationsFiltered                                  *)
(*   SpecFetch    the filtered loads of aliases, users, shared groups   *)
(*                and cdr stats                                            *)
(*   SpecLoaders  the loads of rating profiles, LCRs and aliases, IsValid   *)
(*                and GetLoadedIds                                          *)
(***************************************************************************)
EXTENDS Integers, Sequences, FiniteSets, TLC

VARIABLES
    laPc,      \* LoadAll: 0 = not running, k = at step k, Done = returned
    laInCall,  \* LoadAll: TRUE while the step laPc is executing
    laLog,     \* LoadAll: the load steps invoked so far, in order
    laOut,     \* LoadAll: the error value each invoked step returned
    laRet      \* LoadAll: the value LoadAll returned ("none" while running)

VARIABLES
    timings,           \* tpr.timings: timing tag -> TPTiming
    destinationRates,  \* tpr.destinationRates: tag -> list of DestinationRate
    ratingPlans,       \* tpr.ratingPlans: tag -> (destination id -> intervals)
    rpErr,             \* what the last LoadRatingPlans returned
    lastAdd            \* the last direct AddRateInterval call and the bucket before it

VARIABLES
    destinations,  \* tpr.destinations: destination id -> list of prefixes
    revDests,      \* tpr.revDests: prefix -> list of destination ids
    dstErr,        \* what the last LoadDestinations returned
    dstLoads       \* number of LoadDestinations calls made

VARIABLES
    dataStorage,      \* tpr.dataStorage: "nil" or "db"
    dbKeys,           \* the <<prefix, id>> keys the store holds
    actions,          \* tpr.actions: the tags of the loaded actions
    actionsTriggers,  \* tpr.actionsTriggers: tag -> list of ActionTrigger
    actionPlans,      \* tpr.actionPlans: tag -> ActionPlan
    accountActions,   \* tpr.accountActions: account key -> Account
    acntActionPlans,  \* tpr.acntActionPlans: account key -> action plan tags
    apErr,            \* what the last LoadActionPlans returned
    accErr,           \* what the last LoadAccountActions returned
    apLoads,          \* number of LoadActionPlans calls made
    accLoads,         \* number of LoadAccountActions calls made
    accLast           \* the rows of the last LoadAccountActions call and the
                      \* account keys held before it

VARIABLES
    ratingProfiles,   \* tpr.ratingProfiles: tag -> RatingProfile
    sharedGroups,     \* tpr.sharedGroups: tag -> SharedGroup
    lcrs,             \* tpr.lcrs: tag -> LCR
    derivedChargers,  \* tpr.derivedChargers: tag -> DerivedChargers
    cdrStats,         \* tpr.cdrStats: tag -> CdrStats
    users,            \* tpr.users: tag -> UserProfile
    aliases,          \* tpr.aliases: tag -> Alias
    resLimits         \* tpr.resLimits: tag -> TPResourceLimit

VARIABLES
    dbActionPlans  \* the store: action plan id -> ActionPlan

VARIABLES
    rates,      \* tpr.rates: tag -> rate slots
    revAliases, \* tpr.revAliases: alias -> alias keys
    rdErr,      \* what the last load step of the reader returned
    rdLoads,    \* number of load steps made on the reader
    dbQueries,  \* the queries the last load step of the reader made to the store
    rdLast      \* the last operation on the reader and what it was given

VARIABLES
    opPc,      \* the operation on the store: "idle", "running" or "done"
    opAgenda,  \* the calls the running operation still has to make
    dbLog,     \* the store calls the running or last operation issued
    opRet,     \* what the last operation returned
    opCalls,   \* the calls of the filtered loads so far
    opIn       \* what the last operation was given: the rows the source
               \* returned to a filtered load, the flag disable_reverse of
               \* WriteToDatabase

laVars == <<laPc, laInCall, laLog, laOut, laRet>>

rpVars == <<timings, destinationRates, ratingPlans, rpErr, lastAdd>>

dstVars == <<destinations, revDests, dstErr, dstLoads>>

dbVars == <<dataStorage, dbKeys>>

accVars == <<actions, actionsTriggers, actionPlans, accountActions,
             acntActionPlans, apErr, accErr, apLoads, accLoads, accLast>>

kindVars == <<ratingProfiles, sharedGroups, lcrs, derivedChargers, cdrStats,
              users, aliases, resLimits>>

opVars == <<opPc, opAgenda, dbLog, opRet, opCalls, opIn>>

rdVars == <<rates, revAliases, rdErr, rdLoads, dbQueries, rdLast>>

vars == <<laVars, rpVars, dstVars, dbVars, accVars, kindVars, opVars,
         dbActionPlans, rdVars>>

\* what the operations of one group leave alone
notLoadAll == <<rpVars, dstVars, dbVars, accVars, kindVars, opVars, dbActionPlans,
              rdVars>>

notRP == <<laVars, dstVars, dbVars, accVars, kindVars, opVars, dbActionPlans,
              rdVars>>

notDest == <<laVars, rpVars, dbVars, accVars, kindVars, opVars, dbActionPlans,
              rdVars>>

notAcc == <<laVars, rpVars, dstVars, kindVars, opVars, dbActionPlans,
              rdVars>>

notWrite == <<laVars, rpVars, dstVars, dbVars, accVars, kindVars, rdVars>>

notFiltered == <<laVars, rpVars, dstVars, dbVars, accVars, kindVars,
                 rdVars>>

notReader == <<laVars, dbVars, opVars, dbActionPlans>>

(***************************************************************************)
(* Generic helpers                                                         *)
(***************************************************************************)
IsPrefix(s, t) == Len(s) <= Len(t) /\ \A i \in 1..Len(s) : s[i] = t[i]

Range(s) == {s[i] : i \in 1..Len(s)}

NoDup(s) == \A i, j \in 1..Len(s) : s[i] = s[j] => i = j

Put(m, k, v) == [x \in (DOMAIN m) \cup {k} |-> IF x = k THEN v ELSE m[x]]

EmptyMap == [x \in {} |-> 0]

(***************************************************************************)
(* Error values.  "nil" is the nil error; NotFoundCaps is the text of the  *)
(* 'not found' sentinel; the others stand for any other error a step can   *)
(* return (source fetch, mapping, reference resolution).                   *)
(***************************************************************************)
Nil == "nil"

NotFoundCaps == "NOT_FOUND"

OtherErrors == {"ERR_A", "ERR_B"}

StepErrors == {Nil, NotFoundCaps} \cup OtherErrors

\* no LoadAll was called
LoadAllIdle ==
    /\ laPc = 0
    /\ laInCall = FALSE
    /\ laLog = <<>>
    /\ laOut = <<>>
    /\ laRet = "none"

(***************************************************************************)
(* Errors of the load operations: the nil error, or a message and the tag  *)
(* the message names.                                                      *)
(***************************************************************************)
Err(m, a) == [msg |-> m, arg |-> a]

ErrNil == Err("nil", "")

\* an error returned by the source (LoadReader) or by the store (DataDB)
ErrIO == Err("io error", "")

(***************************************************************************)
(* Tags and sentinels                                                      *)
(***************************************************************************)
ANY == "*any"

ASAP == "*asap"

MetaEveryMinute == "*every_minute"

MetaHourly == "*hourly"

\* utils.TPTiming; Years is the set of years ("empty" for utils.Years{}) and
\* Cal stands for the Months, MonthDays and WeekDays sets
TPTiming(id, years, cal, start) ==
    [ID |-> id, Years |-> years, Cal |-> cal, StartTime |-> start,
     EndTime |-> ""]

\* the timings map as NewTpReader leaves it
NewTpReaderTimings ==
    [t \in {ANY, ASAP, MetaEveryMinute, MetaHourly} |->
        TPTiming(t, "empty", "empty", IF t = ANY THEN "00:00:00" ELSE t)]

\* timing rows a source can hold
SrcTimings ==
    [t \in {"T1", "T2"} |->
        TPTiming(t, "2016", IF t = "T1" THEN "workdays" ELSE "weekend",
                 "00:00:00")]

\* MapTPTimings: the rows keyed by their ID; of two rows with one ID the
\* later stands
MapTPTimings(tps) ==
    [id \in {tps[i].ID : i \in 1..Len(tps)} |->
        LET at == {i \in 1..Len(tps) : tps[i].ID = id}
        IN tps[CHOOSE i \in at : \A j \in at : j <= i]]

\* the map LoadTimings leaves for the rows tps: the mapped rows, then the
\* tags *any and *asap set over them
TimingsOf(tps) ==
    LET m == MapTPTimings(tps)
    IN [t \in DOMAIN m \cup {ANY, ASAP} |->
           IF t \in {ANY, ASAP} THEN NewTpReaderTimings[t] ELSE m[t]]

\* the timings map after LoadTimings found the rows of SrcTimings
LoadedTimings == TimingsOf(<< SrcTimings["T1"], SrcTimings["T2"] >>)

(***************************************************************************)
(* RatingPlan: rate intervals and their merge                              *)
(***************************************************************************)
\* RITiming built from a TPTiming
RITiming(t) ==
    [Years |-> t.Years, Cal |-> t.Cal, StartTime |-> t.StartTime,
     EndTime |-> t.EndTime]

RateInterval(t, w, rs) == [timing |-> t, weight |-> w, rates |-> rs]

\* RateInterval.Equal: same timing and same weight
Equal(i, o) == i.weight = o.weight /\ i.timing = o.timing

\* RateGroups.AddRate: the rates of ps that pg does not hold yet are appended
RECURSIVE AddRate(_, _)
AddRate(pg, ps) ==
    IF ps = <<>> THEN pg
    ELSE AddRate(IF Head(ps) \in Range(pg) THEN pg ELSE Append(pg, Head(ps)),
                 Tail(ps))

\* index of the first interval of ris equal to i, 0 when there is none
FirstEqual(ris, i) ==
    LET eq == {k \in 1..Len(ris) : Equal(i, ris[k])}
    IN IF eq = {} THEN 0 ELSE CHOOSE k \in eq : \A j \in eq : k <= j

AddRateIntervalAlwaysAppends(ris, is) == ris \o is

RECURSIVE AddRateIntervalDropsRates(_, _)
AddRateIntervalDropsRates(ris, is) ==
    IF is = <<>> THEN ris
    ELSE AddRateIntervalDropsRates(
             IF FirstEqual(ris, Head(is)) # 0 THEN ris ELSE Append(ris, Head(is)),
             Tail(is))

\* the merge with an interval that equals none put in front of the list
RECURSIVE AddRateIntervalInFront(_, _)
AddRateIntervalInFront(ris, is) ==
    IF is = <<>> THEN ris
    ELSE LET i == Head(is)
             k == FirstEqual(ris, i)
         IN AddRateIntervalInFront(
                IF k # 0
                  THEN [ris EXCEPT ![k].rates = AddRate(@, i.rates)]
                  ELSE << i >> \o ris,
                Tail(is))

\* RatingPlan.AddRateInterval on the interval list ris
RECURSIVE AddRateInterval(_, _)
AddRateInterval(ris, is) ==
    IF is = <<>> THEN ris
    ELSE LET i == Head(is)
             k == FirstEqual(ris, i)
         IN AddRateInterval(
                IF k # 0
                  THEN [ris EXCEPT ![k].rates = AddRate(@, i.rates)]
                  ELSE Append(ris, i),
                Tail(is))

\* the interval list of destination dId in a plan
Bucket(plan, dId) == IF dId \in DOMAIN plan THEN plan[dId] ELSE <<>>

\* plan.AddRateInterval(dId, is...) as the reader calls it
AddRateIntervalTo(plan, dId, is) ==
    Put(plan, dId, AddRateInterval(Bucket(plan, dId), is))

\* GetRateInterval(rplBnd, dr): the timing set on the binding, the weight of
\* the binding and the rate slots of the destination rate
GetRateInterval(rplBnd, dr) ==
    RateInterval(RITiming(rplBnd.timing), rplBnd.Weight, dr.Rate)

\* one DestinationRate entry of a TPDestinationRate
DestinationRate(d, rateId, slots) ==
    [DestinationId |-> d, RateId |-> rateId, Rate |-> slots]

\* the destination rates a source can hold
SrcDestinationRates ==
    [id \in {"DR1", "DR2"} |->
        IF id = "DR1"
          THEN << DestinationRate("D1", "RT1", <<"R1">>) >>
          ELSE << DestinationRate(ANY, "RT2", <<"R2">>),
                  DestinationRate("D1", "RT2", <<"R2">>) >>]

\* MapTPRatingPlanBindings: the rows of each tag, in row order
MapTPRatingPlanBindings(rows) ==
    [tag \in {rows[i].tag : i \in 1..Len(rows)} |->
        SelectSeq(rows, LAMBDA r : r.tag = tag)]

\* the loop of LoadRatingPlans over the destination rates of one binding
RECURSIVE AddDestinationRates(_, _, _)
AddDestinationRates(plan, rplBnd, drs) ==
    IF drs = <<>> THEN plan
    ELSE AddDestinationRates(
             AddRateIntervalTo(plan, Head(drs).DestinationId,
                               <<GetRateInterval(rplBnd, Head(drs))>>),
             rplBnd, Tail(drs))

\* the loop of LoadRatingPlans over the bindings of one tag
RECURSIVE LoadBindings(_, _, _, _, _)
LoadBindings(plans, tag, rplBnds, tms, drsMap) ==
    IF rplBnds = <<>> THEN [plans |-> plans, err |-> ErrNil]
    ELSE LET b == Head(rplBnds) IN
         IF b.TimingId \notin DOMAIN tms
           THEN [plans |-> plans,
                 err |-> Err("could not get timing for tag", b.TimingId)]
         ELSE IF b.DestinationRatesId \notin DOMAIN drsMap
           THEN [plans |-> plans,
                 err |-> Err("could not find destination rate for tag",
                             b.DestinationRatesId)]
         ELSE LET bt == [b EXCEPT !.timing = tms[b.TimingId]]
                  plans1 == IF tag \in DOMAIN plans THEN plans
                            ELSE Put(plans, tag, EmptyMap)
                  plans2 == Put(plans1, tag,
                                AddDestinationRates(plans1[tag], bt,
                                    drsMap[b.DestinationRatesId]))
              IN LoadBindings(plans2, tag, Tail(rplBnds), tms, drsMap)

\* the loop of LoadRatingPlans over the tags, visited in the order tags
RECURSIVE LoadTags(_, _, _, _, _)
LoadTags(plans, tags, bindings, tms, drsMap) ==
    IF tags = <<>> THEN [plans |-> plans, err |-> ErrNil]
    ELSE LET r == LoadBindings(plans, Head(tags), bindings[Head(tags)],
                               tms, drsMap)
         IN IF r.err # ErrNil THEN r
            ELSE LoadTags(r.plans, Tail(tags), bindings, tms, drsMap)

\* all orders in which the keys of a Go map can be visited
Orders(S) ==
    {o \in [1..Cardinality(S) -> S] : \A i, j \in 1..Cardinality(S) :
                                          o[i] = o[j] => i = j}

\* bounds of the rating-plan inputs
MaxIs == 2

MaxBindings == 2

SeqsUpTo(S, n) == UNION {[1..k -> S] : k \in 0..n}

\* rating-plan binding rows a source can return; "T9" and "DR9" are tags
\* that nothing defines
BindingRows ==
    {[tag |-> "RP1", TimingId |-> r[1], DestinationRatesId |-> r[2],
      Weight |-> 10, timing |-> TPTiming("", "", "", "")] :
        r \in {<<"T1", "DR1">>, <<"T1", "DR2">>, <<"T9", "DR1">>,
               <<"T1", "DR9">>}}

RIAll ==
    {RateInterval(RITiming(SrcTimings[t]), w, rs) :
        t \in {"T1", "T2"}, w \in {10, 20}, rs \in {<<"R1">>, <<"R2">>}}

\* the intervals a caller passes to AddRateInterval for bucket dId: one
\* timing and weight with either rate list and, for a destination other
\* than *any, two more timing and weight pairs
RIInputs(dId) ==
    {i \in RIAll : i.timing.Cal = "workdays" /\ i.weight = 10}
    \cup (IF dId = ANY THEN {}
          ELSE {i \in RIAll : /\ i.rates = <<"R1">>
                              /\ (i.timing.Cal = "workdays" \/ i.weight = 10)})

NoAdd == [kind |-> "none", tag |-> "", dId |-> "", is |-> <<>>, before |-> <<>>]

\* the rating-plan state of a reader that nothing was loaded into
RPIdle ==
    /\ timings = NewTpReaderTimings
    /\ destinationRates = EmptyMap
    /\ ratingPlans = EmptyMap
    /\ rpErr = ErrNil
    /\ lastAdd = NoAdd

\* LoadRatingPlans: the source fetch fails, or returns rows
LoadRatingPlans ==
    /\ \/ /\ rpErr' = ErrIO
          /\ UNCHANGED ratingPlans
       \/ \E rows \in SeqsUpTo(BindingRows, MaxBindings) :
             LET bindings == MapTPRatingPlanBindings(rows) IN
             \E tags \in Orders(DOMAIN bindings) :
                 LET r == LoadTags(ratingPlans, tags, bindings, timings,
                                   destinationRates)
                 IN /\ ratingPlans' = r.plans
                    /\ rpErr' = r.err
    /\ lastAdd' = NoAdd
    /\ UNCHANGED <<timings, destinationRates>>
    /\ UNCHANGED notRP

\* a caller adds the intervals is to bucket dId of a loaded rating plan
AddRateIntervalCall ==
    \E tag \in DOMAIN ratingPlans, dId \in {"D1", ANY} :
        \E is \in SeqsUpTo(RIInputs(dId), MaxIs) \ {<<>>} :
            /\ ratingPlans' = [ratingPlans EXCEPT
                                 ![tag] = AddRateIntervalTo(@, dId, is)]
            /\ lastAdd' = [kind |-> "add", tag |-> tag, dId |-> dId, is |-> is,
                           before |-> Bucket(ratingPlans[tag], dId)]
            /\ UNCHANGED <<timings, destinationRates, rpErr>>
            /\ UNCHANGED notRP

(***************************************************************************)
(* Destinations and the reverse prefix index                               *)
(***************************************************************************)
MaxDestRows == 2

MaxDstLoads == 2

\* destination rows a source can return: an id and its prefixes
TPDestinations ==
    {[ID |-> id, Prefixes |-> ps] :
        id \in {"D1", "D2"}, ps \in {<<"p1">>, <<"p2">>, <<"p1", "p2">>}}

\* NewDestinationFromTPDestination: a Destination with the prefixes of the row
NewDestinationFromTPDestination(tpDst) == tpDst.Prefixes

\* the loop of LoadDestinations over the prefixes of one destination
RECURSIVE AddRevDests(_, _, _)
AddRevDests(rev, prefixes, id) ==
    IF prefixes = <<>> THEN rev
    ELSE LET prfx == Head(prefixes)
             rev1 == IF prfx \in DOMAIN rev THEN rev ELSE Put(rev, prfx, <<>>)
         IN AddRevDests(Put(rev1, prfx, Append(rev1[prfx], id)),
                        Tail(prefixes), id)

\* the loop of LoadDestinations over the rows
RECURSIVE LoadDestinationRows(_, _, _)
LoadDestinationRows(dsts, rev, tps) ==
    IF tps = <<>> THEN [destinations |-> dsts, revDests |-> rev]
    ELSE LET tpDst == Head(tps)
             dsts1 == Put(dsts, tpDst.ID, NewDestinationFromTPDestination(tpDst))
         IN LoadDestinationRows(dsts1,
                                AddRevDests(rev, dsts1[tpDst.ID], tpDst.ID),
                                Tail(tps))

\* no destination was loaded
DestIdle ==
    /\ destinations = EmptyMap
    /\ revDests = EmptyMap
    /\ dstErr = ErrNil
    /\ dstLoads = 0

\* LoadDestinations: the source fetch fails, or returns rows
LoadDestinations ==
    /\ dstLoads < MaxDstLoads
    /\ dstLoads' = dstLoads + 1
    /\ \/ /\ dstErr' = ErrIO
          /\ UNCHANGED <<destinations, revDests>>
       \/ \E tps \in SeqsUpTo(TPDestinations, MaxDestRows) :
             LET r == LoadDestinationRows(destinations, revDests, tps)
             IN /\ destinations' = r.destinations
                /\ revDests' = r.revDests
                /\ dstErr' = ErrNil
    /\ UNCHANGED notDest

(***************************************************************************)
(* The store, as far as the load-all steps use it                          *)
(***************************************************************************)
ACTION_PREFIX == "act_"

DESTINATION_PREFIX == "dst_"

RATING_PLAN_PREFIX == "rpl_"

\* one query of a load step to the store
Query(op, prefix, key) == [op |-> op, prefix |-> prefix, key |-> key]

\* the record of an operation on the reader; loaded is filled in by Init,
\* rows by LoadRatingProfiles with the rows of the source whose activation
\* time does not parse and by LoadLCRs with the rules of the source;
\* LoadRatingProfiles adds refs, the rating-plan ids its rows refer to,
\* LoadActionPlans the action and timing ids its rows refer to
ReaderOp(op) == [op |-> op, loaded |-> {}, rows |-> <<>>]

NoOp == ReaderOp("none")

\* no store is attached to the reader
DbIdle ==
    /\ dataStorage = "nil"
    /\ dbKeys = {}

(***************************************************************************)
(* Action plans, accounts and the account -> action-plan index             *)
(***************************************************************************)
MaxApRows == 2

MaxApLoads == 1

MaxRdLoads == 1

MaxAccRows == 2

MaxAccLoads == 2

\* action-plan rows a source can return; "A9" and "T9" are tags that nothing
\* defines, "A3" is an action that only the store holds
ApRows ==
    {[Id |-> r[1], ActionsId |-> r[2], TimingId |-> r[3], Weight |-> 10] :
        r \in {<<"AP1", "A1", ASAP>>, <<"AP1", "A2", "T1">>,
               <<"AP2", "A3", ASAP>>, <<"AP1", "A9", ASAP>>,
               <<"AP2", "A1", "T9">>}}

\* account-actions rows a source can return; "AP9" and "TR9" are tags that
\* nothing defines
AccRows ==
    {[key |-> r[1], ActionPlanId |-> r[2], ActionTriggersId |-> r[3],
      AllowNegative |-> FALSE, Disabled |-> FALSE] :
        r \in {<<"acc1", "AP1", "TR1">>, <<"acc2", "AP1", "">>,
               <<"acc2", "", "">>, <<"acc1", "AP9", "">>,
               <<"acc2", "AP2", "TR9">>}}

\* MapTPActionTimings: the rows of each action plan id, in row order
MapTPActionTimings(rows) ==
    [id \in {rows[i].Id : i \in 1..Len(rows)} |->
        SelectSeq(rows, LAMBDA r : r.Id = id)]

\* the ActionTiming LoadActionPlans builds from timing t (the Uuid is left
\* out): Years, Months, MonthDays, WeekDays and StartTime are copied
ActionTiming(at, t) ==
    [Weight |-> at.Weight,
     Timing |-> [Years |-> t.Years, Cal |-> t.Cal, StartTime |-> t.StartTime,
                 EndTime |-> ""],
     ActionsID |-> at.ActionsId]

\* ActionTiming.IsASAP: the start time is the immediate-execution sentinel
IsASAP(at) == at.Timing.StartTime = ASAP

NewActionPlan(id) == [Id |-> id, ActionTimings |-> <<>>, AccountIDs |-> {}]

\* the loop of LoadActionPlans over the action timings with every action
\* taken as found
RECURSIVE LoadActionTimingsAnyAction(_, _, _, _)
LoadActionTimingsAnyAction(st, atId, ats, env) ==
    IF ats = <<>> THEN st
    ELSE LET at == Head(ats)
             inMem == at.ActionsId \in env.actions
             probe == ~inMem /\ env.db # "nil"
             n1 == IF probe THEN st.n + 1 ELSE st.n
             q1 == IF probe
                     THEN Append(st.q, Query("HasData", ACTION_PREFIX,
                                             at.ActionsId))
                   ELSE st.q
             exists == TRUE
         IN IF probe /\ n1 = env.failAt
              THEN [st EXCEPT !.n = n1, !.q = q1,
                      !.err = Err("[ActionPlans] Error querying actions",
                                  at.ActionsId)]
            ELSE IF ~exists
              THEN [st EXCEPT !.n = n1, !.q = q1,
                      !.err = Err("[ActionPlans] Could not load the action for tag",
                                  at.ActionsId)]
            ELSE IF at.TimingId \notin DOMAIN env.timings
              THEN [st EXCEPT !.n = n1, !.q = q1,
                      !.err = Err("[ActionPlans] Could not load the timing for tag",
                                  at.TimingId)]
            ELSE LET actPln == IF atId \in DOMAIN st.aps THEN st.aps[atId]
                               ELSE NewActionPlan(atId)
                     new == [actPln EXCEPT !.ActionTimings =
                               Append(@, ActionTiming(at, env.timings[at.TimingId]))]
                 IN LoadActionTimingsAnyAction([st EXCEPT !.n = n1, !.q = q1,
                                         !.aps = Put(@, atId, new)],
                                      atId, Tail(ats), env)

\* the loop of LoadActionPlans over the action timings of plan atId; st is
\* the plans so far, the error, the number of store probes made and the
\* probes themselves, env the maps it reads, the store and the probe at
\* which the store fails
RECURSIVE LoadActionTimings(_, _, _, _)
LoadActionTimings(st, atId, ats, env) ==
    IF ats = <<>> THEN st
    ELSE LET at == Head(ats)
             inMem == at.ActionsId \in env.actions
             probe == ~inMem /\ env.db # "nil"
             n1 == IF probe THEN st.n + 1 ELSE st.n
             q1 == IF probe
                     THEN Append(st.q, Query("HasData", ACTION_PREFIX,
                                             at.ActionsId))
                   ELSE st.q
             exists == \/ inMem
                       \/ probe /\ <<ACTION_PREFIX, at.ActionsId>> \in env.dbKeys
         IN IF probe /\ n1 = env.failAt
              THEN [st EXCEPT !.n = n1, !.q = q1,
                      !.err = Err("[ActionPlans] Error querying actions",
                                  at.ActionsId)]
            ELSE IF ~exists
              THEN [st EXCEPT !.n = n1, !.q = q1,
                      !.err = Err("[ActionPlans] Could not load the action for tag",
                                  at.ActionsId)]
            ELSE IF at.TimingId \notin DOMAIN env.timings
              THEN [st EXCEPT !.n = n1, !.q = q1,
                      !.err = Err("[ActionPlans] Could not load the timing for tag",
                                  at.TimingId)]
            ELSE LET actPln == IF atId \in DOMAIN st.aps THEN st.aps[atId]
                               ELSE NewActionPlan(atId)
                     new == [actPln EXCEPT !.ActionTimings =
                               Append(@, ActionTiming(at, env.timings[at.TimingId]))]
                 IN LoadActionTimings([st EXCEPT !.n = n1, !.q = q1,
                                         !.aps = Put(@, atId, new)],
                                      atId, Tail(ats), env)

\* the loop of LoadActionPlans over the plan ids, visited in the order ids
RECURSIVE LoadActionPlanIds(_, _, _, _)
LoadActionPlanIds(st, ids, storAps, env) ==
    IF ids = <<>> THEN st
    ELSE LET r == LoadActionTimings(st, Head(ids), storAps[Head(ids)], env)
         IN IF r.err # ErrNil THEN r
            ELSE LoadActionPlanIds(r, Tail(ids), storAps, env)

\* MapTPAccountActions: the rows keyed by account key; two rows with the
\* same key are an error
MapTPAccountActions(tps) ==
    IF \E i, j \in 1..Len(tps) : i # j /\ tps[i].key = tps[j].key
      THEN [rows |-> <<>>,
            err |-> Err("non unique account actions id",
                        tps[CHOOSE i \in 1..Len(tps) :
                                \E j \in 1..Len(tps) :
                                    i # j /\ tps[i].key = tps[j].key].key)]
      ELSE [rows |-> tps, err |-> ErrNil]

\* Account.InitCounters: the counters of the account are set up from its
\* action triggers
InitCounters(ub) == [ub EXCEPT !.UnitCounters = "initialised"]

NeverDefined(accts, key) == FALSE

\* the test  _, alreadyDefined := tpr.accountActions[aa.KeyId()]
AlreadyDefined(accts, key) == key \in DOMAIN accts

BindAccountWithoutIndex(st, key, planId) ==
    [st EXCEPT !.aps[planId].AccountIDs = @ \cup {key}]

\* the binding of account key to the plan planId: the bound-account set of
\* the plan and the reverse index of the account
BindAccount(st, key, planId) ==
    [st EXCEPT !.aps[planId].AccountIDs = @ \cup {key},
               !.aap = Put(@, key,
                           Append(IF key \in DOMAIN @ THEN @[key] ELSE <<>>,
                                  planId))]

\* the loop of LoadAccountActions over the mapped rows; st holds the
\* accounts, the action plans, the reverse index and the error
RECURSIVE LoadAccountRows(_, _, _)
LoadAccountRows(st, storAts, triggers) ==
    IF storAts = <<>> THEN st
    ELSE LET aa == Head(storAts)
             aaKeyID == aa.key
         IN IF AlreadyDefined(st.accts, aaKeyID)
              THEN [st EXCEPT !.err = Err("duplicate account action found",
                                          aaKeyID)]
            ELSE IF aa.ActionTriggersId # "" /\ aa.ActionTriggersId \notin triggers
              THEN [st EXCEPT !.err = Err("could not get action triggers for tag",
                                          aa.ActionTriggersId)]
            ELSE LET ub == InitCounters(
                               [ID |-> aaKeyID,
                                ActionTriggers |-> aa.ActionTriggersId,
                                AllowNegative |-> aa.AllowNegative,
                                Disabled |-> aa.Disabled,
                                UnitCounters |-> "none"])
                     st1 == [st EXCEPT !.accts = Put(@, aaKeyID, ub)]
                 IN IF aa.ActionPlanId = ""
                      THEN LoadAccountRows(st1, Tail(storAts), triggers)
                    ELSE IF aa.ActionPlanId \notin DOMAIN st1.aps
                      THEN [st1 EXCEPT !.err =
                              Err("could not get action plan for tag",
                                  aa.ActionPlanId)]
                    ELSE LoadAccountRows(BindAccount(st1, aaKeyID, aa.ActionPlanId),
                                         Tail(storAts), triggers)

NoAccLoad == [kind |-> "none", rows |-> <<>>, before |-> {}]

\* the action and account state of a reader that nothing was loaded into
AccIdle ==
    /\ actions = {}
    /\ actionsTriggers = EmptyMap
    /\ actionPlans = EmptyMap
    /\ accountActions = EmptyMap
    /\ acntActionPlans = EmptyMap
    /\ apErr = ErrNil
    /\ accErr = ErrNil
    /\ apLoads = 0
    /\ accLoads = 0
    /\ accLast = NoAccLoad

\* the reader state that only the reader's own specification uses
RdIdle ==
    /\ rates = EmptyMap
    /\ revAliases = EmptyMap
    /\ rdErr = ErrNil
    /\ rdLoads = 0
    /\ dbQueries = <<>>
    /\ rdLast = NoOp

\* LoadActionPlans: the source fetch fails, or returns rows; the store, when
\* one is attached, fails at probe failAt (0: it does not fail)
LoadActionPlans ==
    /\ apLoads < MaxApLoads
    /\ rdLoads < MaxRdLoads
    /\ apLoads' = apLoads + 1
    /\ \/ /\ apErr' = ErrIO
          /\ dbQueries' = <<>>
          /\ rdLast' = [op |-> "LoadActionPlans", loaded |-> {},
                        rows |-> <<>>, refs |-> {}]
          /\ UNCHANGED actionPlans
       \/ \E tps \in SeqsUpTo(ApRows, MaxApRows), failAt \in 0..MaxApRows :
             LET storAps == MapTPActionTimings(tps) IN
             \E ids \in Orders(DOMAIN storAps) :
                 LET r == LoadActionPlanIds(
                              [aps |-> actionPlans, err |-> ErrNil, n |-> 0, q |-> <<>>],
                              ids, storAps,
                              [actions |-> actions, timings |-> timings,
                               db |-> dataStorage, dbKeys |-> dbKeys,
                               failAt |-> failAt])
                 IN /\ actionPlans' = r.aps
                    /\ apErr' = r.err
                    /\ dbQueries' = r.q
                    /\ rdLast' = [op |-> "LoadActionPlans", loaded |-> {},
                                  rows |-> <<>>,
                                  refs |-> {[ActionsId |-> tps[i].ActionsId,
                                             TimingId |-> tps[i].TimingId] :
                                               i \in 1..Len(tps)}]
    /\ accLast' = NoAccLoad
    /\ UNCHANGED <<actions, actionsTriggers, accountActions, acntActionPlans,
                   accErr, accLoads>>
    /\ rdLoads' = rdLoads + 1
    /\ UNCHANGED <<rates, revAliases, rdErr>>
    /\ UNCHANGED <<rpVars, dstVars, kindVars>>
    /\ UNCHANGED notReader

\* LoadAccountActions: the source fetch fails, or returns rows
LoadAccountActions ==
    /\ accLoads < MaxAccLoads
    /\ accLoads' = accLoads + 1
    /\ \/ /\ accErr' = ErrIO
          /\ accLast' = NoAccLoad
          /\ UNCHANGED <<accountActions, actionPlans, acntActionPlans>>
       \/ \E tps \in SeqsUpTo(AccRows, MaxAccRows) :
             LET storAts == MapTPAccountActions(tps)
                 r == LoadAccountRows(
                          [accts |-> accountActions, aps |-> actionPlans,
                           aap |-> acntActionPlans, err |-> ErrNil],
                          storAts.rows, DOMAIN actionsTriggers)
             IN /\ accLast' = [kind |-> "load", rows |-> tps,
                               before |-> DOMAIN accountActions]
                /\ IF storAts.err # ErrNil
                     THEN /\ accErr' = storAts.err
                          /\ UNCHANGED <<accountActions, actionPlans,
                                         acntActionPlans>>
                     ELSE /\ accountActions' = r.accts
                          /\ actionPlans' = r.aps
                          /\ acntActionPlans' = r.aap
                          /\ accErr' = r.err
    /\ UNCHANGED <<actions, actionsTriggers, apErr, apLoads>>
    /\ UNCHANGED dbVars
    /\ UNCHANGED notAcc

(***************************************************************************)
(* WriteToDatabase                                                         *)
(***************************************************************************)
ErrNone == Err("none", "")

\* utils.NonTransactional: the transaction id of a write outside a
\* transaction
NonTransactional == ""

REVERSE_DESTINATION_PREFIX == "rds_"

AccountActionPlansPrefix == "aap_"

REVERSE_ALIASES_PREFIX == "rls_"

\* a call an operation makes on the store: the operation, the key it is for
\* and the value it writes; for PushTask the account id and the action id
\* of the Task, with what it is pushed for: the index of the action timing
\* (at) and, as key, the plan (WriteToDatabase) or the account being loaded
\* (LoadAccountActionsFiltered); pre is the outcome of the conversion made
\* before the call, or what the caller does with an error of the call;
\* trans is the transaction id the call is given
Call(op, key) ==
    [op |-> op, key |-> key, acc |-> "", act |-> "", at |-> 0, pre |-> "ok",
     val |-> <<>>, trans |-> NonTransactional]

\* a Task whose PushTask error the caller drops
TaskErrorIgnored(for, i, accID, actionsID) ==
    [op |-> "PushTask", key |-> for, acc |-> accID, act |-> actionsID,
     at |-> i, pre |-> "ignored", val |-> <<>>, trans |-> NonTransactional]

Task(for, i, accID, actionsID) ==
    [op |-> "PushTask", key |-> for, acc |-> accID, act |-> actionsID,
     at |-> i, pre |-> "ok", val |-> <<>>, trans |-> NonTransactional]

\* calls made in any order (the range over a Go map)
AnyOrder(calls) ==
    [kind |-> "any", calls |-> calls, plans |-> EmptyMap, err |-> ErrNil]

\* the operation returns err without a further call
Return(err) ==
    [kind |-> "return", calls |-> {}, plans |-> EmptyMap, err |-> err]

TimingCallsFirstAccountOnly(k, ap, i) ==
    LET at == ap.ActionTimings[i] IN
    IF ~IsASAP(at) THEN <<>>
    ELSE << AnyOrder({Task(k, i, accID, at.ActionsID) :
                         accID \in IF ap.AccountIDs = {} THEN {""}
                                   ELSE {CHOOSE a \in ap.AccountIDs : TRUE}}) >>

\* the calls for action timing i of plan k: nothing unless it is ASAP, one
\* Task per bound account, and one Task without account when none is bound
TimingCalls(k, ap, i) ==
    LET at == ap.ActionTimings[i] IN
    IF ~IsASAP(at) THEN <<>>
    ELSE << AnyOrder({Task(k, i, accID, at.ActionsID) : accID \in ap.AccountIDs}) >>
         \o (IF Cardinality(ap.AccountIDs) = 0
               THEN << AnyOrder({Task(k, i, "", at.ActionsID)}) >>
               ELSE <<>>)

RECURSIVE PlanCallsFrom(_, _, _)
PlanCallsFrom(k, ap, i) ==
    IF i > Len(ap.ActionTimings)
      THEN << AnyOrder({[Call("SetActionPlan", k) EXCEPT !.val = ap]}) >>
      ELSE TimingCalls(k, ap, i) \o PlanCallsFrom(k, ap, i + 1)

\* the body of the loop with SetActionPlan ahead of the Tasks
PlanCallsPlanFirst(k, ap) ==
    LET s == PlanCallsFrom(k, ap, 1)
    IN << s[Len(s)] >> \o SubSeq(s, 1, Len(s) - 1)

\* the body of the loop over tpr.actionPlans for plan k
PlanCalls(k, ap) == PlanCallsFrom(k, ap, 1)

\* the rebuild of the three reverse indices without regard to what the
\* reader holds, and no indexing of the resource limits
RebuildCallsUnconditional(disable_reverse) ==
    IF disable_reverse THEN <<>>
    ELSE << AnyOrder({Call("RebuildReverseForPrefix",
                           REVERSE_DESTINATION_PREFIX)}),
            AnyOrder({Call("RebuildReverseForPrefix",
                           AccountActionPlansPrefix)}),
            AnyOrder({Call("RebuildReverseForPrefix",
                           REVERSE_ALIASES_PREFIX)}) >>

\* the calls WriteToDatabase makes after the entity writes: the rebuild of
\* each reverse index whose map in the reader is not empty, and the indexing
\* of the resource limits when the reader holds any
RebuildCalls(disable_reverse) ==
    IF disable_reverse THEN <<>>
    ELSE (IF Cardinality(DOMAIN destinations) > 0
                THEN << AnyOrder({Call("RebuildReverseForPrefix",
                                       REVERSE_DESTINATION_PREFIX)}) >>
                ELSE <<>>)
          \o (IF Cardinality(DOMAIN acntActionPlans) > 0
                THEN << AnyOrder({Call("RebuildReverseForPrefix",
                                       AccountActionPlansPrefix)}) >>
                ELSE <<>>)
          \o (IF Cardinality(DOMAIN aliases) > 0
                THEN << AnyOrder({Call("RebuildReverseForPrefix",
                                       REVERSE_ALIASES_PREFIX)}) >>
                ELSE <<>>)
          \o (IF Cardinality(DOMAIN resLimits) > 0
                THEN << AnyOrder({Call("NewReqFilterIndexer", "")}),
                        AnyOrder({[Call("IndexFilters", k) EXCEPT
                                      !.pre = IF resLimits[k] = "ok"
                                              THEN "in memory"
                                              ELSE resLimits[k]] :
                                     k \in DOMAIN resLimits}),
                        AnyOrder({Call("StoreIndexes", "")}) >>
                ELSE <<>>)

\* a loop over the map m that writes the keys and no value
SetCallsWithoutValue(op, m) ==
    AnyOrder({Call(op, k) : k \in DOMAIN m})

\* a loop of WriteToDatabase over the map m of the reader: each entity is
\* written with op as the reader holds it
SetCalls(op, m) ==
    AnyOrder({[Call(op, k) EXCEPT !.val = m[k]] : k \in DOMAIN m})

\* the calls of a whole WriteToDatabase, in the order of its loops; a
\* resource limit is written as the ResourceLimit that APItoResourceLimit
\* makes of the TPResourceLimit the reader holds, when it can
WriteAgenda(disable_reverse) ==
    << SetCalls("SetDestination", destinations),
       SetCalls("SetRatingPlan", ratingPlans),
       SetCalls("SetRatingProfile", ratingProfiles),
       [kind |-> "plans", calls |-> {}, err |-> ErrNil,
        plans |-> [k \in DOMAIN actionPlans |-> PlanCalls(k, actionPlans[k])]],
       SetCalls("SetActionTriggers", actionsTriggers),
       SetCalls("SetSharedGroup", sharedGroups),
       SetCalls("SetLCR", lcrs),
       SetCalls("SetActions", [k \in actions |-> k]),
       SetCalls("SetAccount", accountActions),
       SetCalls("SetDerivedChargers", derivedChargers),
       SetCalls("SetCdrStats", cdrStats),
       SetCalls("SetUser", users),
       SetCalls("SetAlias", aliases),
       AnyOrder({[Call("SetResourceLimit", k) EXCEPT
                     !.pre = resLimits[k],
                     !.val = IF resLimits[k] = "ok" THEN "ResourceLimit"
                             ELSE "nil"] :
                    k \in DOMAIN resLimits}) >>
    \o RebuildCalls(disable_reverse)

\* what the operation returns when its agenda has no call left
RECURSIVE ReturnOf(_)
ReturnOf(agenda) ==
    IF agenda = <<>> THEN ErrNil
    ELSE IF Head(agenda).kind = "return" THEN Head(agenda).err
    ELSE ReturnOf(Tail(agenda))

\* the store after call c succeeded
StoreAfter(plans, c) ==
    IF c.op = "SetActionPlan" THEN Put(plans, c.key, c.val) ELSE plans

\* the operation returns err: a move without call
ReturnMove(err) ==
    [isRet |-> TRUE, call |-> Call("", ""), rest |-> <<>>, ret |-> err]

\* what can come next on an agenda: a call, with the agenda left, or the
\* return of the operation
RECURSIVE NextCalls(_)
NextCalls(agenda) ==
    IF agenda = <<>> THEN {ReturnMove(ErrNil)}
    ELSE LET h == Head(agenda) IN
         IF h.kind = "return" THEN {ReturnMove(h.err)}
         ELSE IF h.kind = "any"
           THEN IF h.calls = {} THEN NextCalls(Tail(agenda))
                ELSE {[isRet |-> FALSE, call |-> c,
                       rest |-> <<AnyOrder(h.calls \ {c})>> \o Tail(agenda),
                       ret |-> ErrNil] : c \in h.calls}
           ELSE IF DOMAIN h.plans = {} THEN NextCalls(Tail(agenda))
                ELSE UNION {NextCalls(
                               h.plans[k]
                               \o << [h EXCEPT !.plans =
                                        [j \in DOMAIN h.plans \ {k} |->
                                            h.plans[j]]] >>
                               \o Tail(agenda)) : k \in DOMAIN h.plans}

\* no call is left on the agenda: the operation returns
Returns(agenda) == \A m \in NextCalls(agenda) : m.isRet

\* the operation goes on with the agenda, or returns when no call is left
Continue(agenda) ==
    IF Returns(agenda)
      THEN /\ opPc' = "done"
           /\ opAgenda' = <<>>
           /\ \E m \in NextCalls(agenda) : opRet' = m.ret
      ELSE /\ opPc' = "running"
           /\ opAgenda' = agenda
           /\ opRet' = ErrNone

\* nothing is loaded for the kinds the model does not load
KindIdle ==
    /\ ratingProfiles = EmptyMap
    /\ sharedGroups = EmptyMap
    /\ lcrs = EmptyMap
    /\ derivedChargers = EmptyMap
    /\ cdrStats = EmptyMap
    /\ users = EmptyMap
    /\ aliases = EmptyMap
    /\ resLimits = EmptyMap

\* WriteToDatabase was not called
OpIdle ==
    /\ opPc = "idle"
    /\ opAgenda = <<>>
    /\ dbLog = <<>>
    /\ opRet = ErrNone
    /\ opCalls = 0
    /\ opIn = <<>>

\* WriteToDatabase is called: without store it returns an error, with
\* nothing to write it returns nil, otherwise it starts on its calls
WriteToDatabaseCall ==
    /\ opPc \in {"idle", "done"}
    /\ dbLog' = <<>>
    /\ \E disable_reverse \in BOOLEAN :
          /\ opIn' = << disable_reverse >>
          /\ IF dataStorage = "nil"
               THEN /\ opPc' = "done"
                    /\ opAgenda' = <<>>
                    /\ opRet' = Err("no database connection", "")
             ELSE Continue(WriteAgenda(disable_reverse))
    /\ UNCHANGED <<dbActionPlans, opCalls>>
    /\ UNCHANGED notWrite

\* the running operation makes its next call: a failed conversion or a
\* failed store write is returned at once (the outcome of a read is part of
\* the call, the error of an "ignored" write is dropped, and the error of a
\* "rollback" write is answered with cache.RollbackTransaction and then
\* dropped), after the last call the operation returns
RunStep ==
    /\ opPc = "running"
    /\ \E nc \in NextCalls(opAgenda), ok \in BOOLEAN :
          IF nc.isRet
            THEN /\ opPc' = "done"
                 /\ opRet' = nc.ret
                 /\ UNCHANGED <<opAgenda, dbLog, dbActionPlans>>
          ELSE IF nc.call.pre \notin {"ok", "in memory", "read", "ignored",
                                      "rollback"}
            THEN /\ opPc' = "done"
                 /\ opRet' = Err(nc.call.pre, nc.call.key)
                 /\ UNCHANGED <<opAgenda, dbLog, dbActionPlans>>
          ELSE IF ~ok /\ nc.call.pre = "ok"
            THEN /\ opPc' = "done"
                 /\ opRet' = Err("store error", nc.call.op)
                 /\ dbLog' = Append(dbLog, [call |-> nc.call, ok |-> FALSE])
                 /\ UNCHANGED <<opAgenda, dbActionPlans>>
          ELSE LET done == ok \/ nc.call.pre \notin {"ignored", "rollback"}
                   undo == [Call("RollbackTransaction", nc.call.trans)
                               EXCEPT !.pre = "in memory"]
               IN
               /\ dbLog' = Append(dbLog, [call |-> nc.call, ok |-> done])
                            \o (IF ~done /\ nc.call.pre = "rollback"
                                  THEN << [call |-> undo, ok |-> TRUE] >>
                                ELSE <<>>)
               /\ dbActionPlans' = IF done
                                     THEN StoreAfter(dbActionPlans, nc.call)
                                     ELSE dbActionPlans
               /\ Continue(nc.rest)

\* a step of the running WriteToDatabase
WriteStep ==
    /\ RunStep
    /\ UNCHANGED <<opCalls, opIn>>
    /\ UNCHANGED notWrite

(***************************************************************************)
(* LoadAccountActionsFiltered                                              *)
(***************************************************************************)
MaxAafRows == 2

MaxOpCalls == 1

\* what the source (tpr.lr) holds for LoadAccountActionsFiltered: the rows
\* of two action plans, two actions, the timings of SrcTimings and a timing
\* "T3" whose start time is the immediate-execution sentinel, one trigger
SrcActionPlans ==
    [id \in {"AP1", "AP2"} |->
        IF id = "AP1"
          THEN << [Id |-> id, ActionsId |-> "A1", TimingId |-> ASAP, Weight |-> 10],
                  [Id |-> id, ActionsId |-> "A2", TimingId |-> "T1", Weight |-> 10] >>
          ELSE << [Id |-> id, ActionsId |-> "A1", TimingId |-> "T3", Weight |-> 10] >>]

SrcActions == {"A1", "A2"}

SrcActionTriggers == [id \in {"TR1"} |-> << [ActionsId |-> "A2"] >>]

GetTPActionPlans(id) ==
    IF id \in DOMAIN SrcActionPlans THEN SrcActionPlans[id] ELSE <<>>

GetTPTimings(id) ==
    IF id \in DOMAIN SrcTimings THEN << SrcTimings[id] >>
    ELSE IF id = "T3" THEN << TPTiming("T3", "2016", "workdays", ASAP) >>
    ELSE <<>>

GetTPActionTriggers(id) ==
    IF id \in DOMAIN SrcActionTriggers THEN SrcActionTriggers[id] ELSE <<>>

\* account-actions rows the source can return for a query; "AP9" is a plan
\* the source does not hold
AafRows ==
    {[key |-> r[1], ActionPlanId |-> r[2], ActionTriggersId |-> r[3],
      AllowNegative |-> FALSE, Disabled |-> FALSE] :
        r \in {<<"acc1", "AP1", "TR1">>, <<"acc2", "AP1", "">>,
               <<"acc2", "AP2", "">>, <<"acc1", "AP9", "">>}}

\* the outcomes of GetActionPlan: the stored plan or not found ("ok"), an
\* error ("err"), and a stored plan without accounts read back with a nil
\* AccountIDs map ("nil")
ReadOutcomes == {"ok", "err", "nil"}

Panic(what) == Err("panic", what)

\* the ActionTiming LoadAccountActionsFiltered builds from timing t: Months,
\* MonthDays, WeekDays and StartTime are copied, Years is not
ActionTimingFiltered(at, t) ==
    [Weight |-> at.Weight,
     Timing |-> [Years |-> "empty", Cal |-> t.Cal, StartTime |-> t.StartTime,
                 EndTime |-> ""],
     ActionsID |-> at.ActionsId]

\* the loop over the action timings of the plan being bound; b holds the
\* ActionTimings built and the error, env the reader's timings, the source
\* fetch that fails and whether the AccountIDs map is nil
RECURSIVE BuildActionTimings(_, _, _)
BuildActionTimings(b, ats, env) ==
    IF ats = <<>> \/ b.err # ErrNil THEN b
    ELSE LET at == Head(ats)
             tptm == GetTPTimings(at.TimingId)
         IN IF env.srcFail = at.ActionsId
              THEN [b EXCEPT !.err = Err("io error (Actions)", at.ActionsId)]
            ELSE IF at.ActionsId \notin SrcActions
              THEN [b EXCEPT !.err = Err("no action with id", at.ActionsId)]
            ELSE IF at.TimingId # ASAP /\ env.srcFail = at.TimingId
              THEN [b EXCEPT !.err = Err("io error (Timing)", at.TimingId)]
            ELSE IF at.TimingId # ASAP /\ tptm = <<>>
              THEN [b EXCEPT !.err = Err("no timing with id", at.TimingId)]
            ELSE IF at.TimingId = ASAP /\ ASAP \notin DOMAIN env.timings
              THEN [b EXCEPT !.err = Panic("nil timing")]
            ELSE IF env.nilIDs
              THEN [b EXCEPT !.err = Panic("assignment to entry in nil map")]
            ELSE BuildActionTimings(
                     [b EXCEPT !.ats =
                         Append(@, ActionTimingFiltered(at,
                                     IF at.TimingId # ASAP THEN tptm[1]
                                     ELSE env.timings[ASAP]))],
                     Tail(ats), env)

\* the Tasks of the plan written for account id: for each ASAP action
\* timing one Task per account of the plan
RECURSIVE BindingTasks(_, _, _)
BindingTasks(id, plan, i) ==
    IF i > Len(plan.ActionTimings) THEN <<>>
    ELSE (IF IsASAP(plan.ActionTimings[i])
            THEN << AnyOrder({Task(id, i, accID, plan.ActionTimings[i].ActionsID) :
                                 accID \in plan.AccountIDs}) >>
            ELSE <<>>)
         \o BindingTasks(id, plan, i + 1)

\* the action-plan part of the loop body for the row aa: the read of the
\* stored plan, the plan built, its Tasks and its writes; stored is the
\* store's action plans when the row is reached
BindActionPlan(aa, stored, env) ==
    LET id == aa.key
        planId == aa.ActionPlanId
        read == env.read[id]
        found == read # "err" /\ planId \in DOMAIN stored
        exiting == IF found THEN stored[planId].AccountIDs ELSE {}
        get == [Call("GetActionPlan", planId) EXCEPT
                   !.acc = id, !.pre = "read",
                   !.val = [outcome |-> IF read = "err" THEN "error"
                                        ELSE IF found THEN "found"
                                        ELSE "not found",
                            stored |-> IF planId \in DOMAIN stored
                                       THEN stored[planId].AccountIDs ELSE {}]]
        tpap == GetTPActionPlans(planId)
        b == BuildActionTimings(
                 [ats |-> <<>>, err |-> ErrNil], tpap,
                 [timings |-> env.timings, srcFail |-> env.srcFail,
                  nilIDs |-> found /\ read = "nil" /\ exiting = {}])
        actionPlan == [Id |-> planId, ActionTimings |-> b.ats,
                       AccountIDs |-> exiting \cup {id}]
    IN IF env.srcFail = planId
         THEN [items |-> << AnyOrder({get}),
                            Return(Err("io error (ActionPlan)", planId)) >>,
               stored |-> stored, actionIDs |-> <<>>, ok |-> FALSE]
       ELSE IF tpap = <<>>
         THEN [items |-> << AnyOrder({get}),
                            Return(Err("no action plan with id", planId)) >>,
               stored |-> stored, actionIDs |-> <<>>, ok |-> FALSE]
       ELSE IF b.err # ErrNil
         THEN [items |-> << AnyOrder({get}), Return(b.err) >>,
               stored |-> stored, actionIDs |-> <<>>, ok |-> FALSE]
       ELSE [items |-> << AnyOrder({get}) >>
                       \o BindingTasks(id, actionPlan, 1)
                       \o << AnyOrder({[Call("SetActionPlan", planId) EXCEPT
                                           !.acc = id, !.val = actionPlan]}),
                             AnyOrder({[Call("SetAccountActionPlans", id) EXCEPT
                                           !.val = <<planId>>]}),
                             AnyOrder({Call("CacheDataFromDB", id)}) >>,
             stored |-> Put(stored, planId, actionPlan),
             actionIDs |-> [i \in 1..Len(b.ats) |-> b.ats[i].ActionsID],
             ok |-> TRUE]

\* the rest of the loop body for the row aa: its action triggers, the
\* actions collected from the timings and the triggers, and the account
BindTriggersAndAccount(aa, actionIDs, env) ==
    LET id == aa.key
        trId == aa.ActionTriggersId
        atrs == IF trId = "" THEN <<>> ELSE GetTPActionTriggers(trId)
        ids == actionIDs \o [i \in 1..Len(atrs) |-> atrs[i].ActionsId]
        failing == {i \in 1..Len(ids) : ids[i] = env.srcFail}
        facts == {ids[i] : i \in 1..Len(ids)} \cap SrcActions
        trItems == IF trId = "" THEN <<>>
                   ELSE << AnyOrder({Call("SetActionTriggers", trId)}) >>
    IN IF trId # "" /\ env.srcFail = trId
         THEN << Return(Err("io error (ActionTriggers)", trId)) >>
       ELSE IF failing # {}
         THEN trItems \o << Return(Err("io error", env.srcFail)) >>
       ELSE trItems
            \o << AnyOrder({Call("SetActions", k) : k \in facts}),
                  AnyOrder({[Call("GetAccount", id) EXCEPT !.pre = "read"]}),
                  AnyOrder({Call("SetAccount", id)}) >>

\* the loop of LoadAccountActionsFiltered over the mapped rows: the calls
\* it makes, in order, ending with the error it returns early
RECURSIVE AccountActionsAgenda(_, _, _)
AccountActionsAgenda(storAas, stored, env) ==
    IF storAas = <<>> THEN <<>>
    ELSE LET aa == Head(storAas)
             b == IF aa.ActionPlanId # ""
                    THEN BindActionPlan(aa, stored, env)
                    ELSE [items |-> <<>>, stored |-> stored,
                          actionIDs |-> <<>>, ok |-> TRUE]
             rest == IF b.ok
                       THEN BindTriggersAndAccount(aa, b.actionIDs, env)
                       ELSE <<>>
             all == b.items \o rest
         IN IF ReturnOf(all) # ErrNil THEN all
            ELSE all \o AccountActionsAgenda(Tail(storAas), b.stored, env)

\* without store the first call on it panics
RECURSIVE WithoutStore(_)
WithoutStore(agenda) ==
    IF agenda = <<>> THEN <<>>
    ELSE IF Head(agenda).kind = "return" THEN agenda
    ELSE IF Head(agenda).calls # {} THEN << Return(Panic("nil store")) >>
    ELSE WithoutStore(Tail(agenda))

\* LoadAccountActionsFiltered is called: the fetch from the source or the
\* mapping of the rows fails, or it starts on the calls of its loop
LoadAccountActionsFilteredCall ==
    /\ opPc \in {"idle", "done"}
    /\ opCalls < MaxOpCalls
    /\ opCalls' = opCalls + 1
    /\ dbLog' = <<>>
    /\ \/ /\ opPc' = "done"
          /\ opAgenda' = <<>>
          /\ opRet' = ErrIO
          /\ opIn' = <<>>
       \/ \E tps \in SeqsUpTo(AafRows, MaxAafRows), srcFail \in {"", "AP1", "A1", "T1", "TR1"} :
          \E read \in [{tps[i].key : i \in 1..Len(tps)} -> ReadOutcomes] :
             /\ opIn' = tps
             /\ LET storAas == MapTPAccountActions(tps)
                    full == AccountActionsAgenda(storAas.rows, dbActionPlans,
                               [timings |-> timings, srcFail |-> srcFail,
                                read |-> read])
                    agenda == IF dataStorage = "nil" THEN WithoutStore(full)
                              ELSE full
                IN IF storAas.err # ErrNil
                     THEN /\ opPc' = "done"
                          /\ opAgenda' = <<>>
                          /\ opRet' = storAas.err
                   ELSE Continue(agenda)
    /\ UNCHANGED dbActionPlans
    /\ UNCHANGED notFiltered

\* a step of the running LoadAccountActionsFiltered
LoadAccountActionsFilteredStep ==
    /\ RunStep
    /\ UNCHANGED <<opCalls, opIn>>
    /\ UNCHANGED notFiltered

(***************************************************************************)
(* LoadRatingPlansFiltered                                                 *)
(***************************************************************************)
\* what the source holds for LoadRatingPlansFiltered: the timings of
\* GetTPTimings, the destination rates of SrcDestinationRates and "DR3",
\* whose destination "D9" the source does not hold, two rates and the
\* destination "D1"
GetTPDestinationRates(id) ==
    IF id \in DOMAIN SrcDestinationRates THEN SrcDestinationRates[id]
    ELSE IF id = "DR3" THEN << DestinationRate("D9", "RT1", <<"R1">>) >>
    ELSE <<>>

SrcRates == {"RT1", "RT2"}

GetTPDestinations(id) ==
    IF id = "D1" THEN << [ID |-> "D1", Prefixes |-> <<"p1">>] >> ELSE <<>>

\* the rating-plan binding rows the source can return for a query; "T9"
\* and "DR9" are tags that nothing defines
FilteredBindingRows ==
    {[tag |-> r[1], TimingId |-> r[2], DestinationRatesId |-> r[3],
      Weight |-> 10, timing |-> TPTiming("", "", "", "")] :
        r \in {<<"RP1", "T1", "DR2">>, <<"RP1", "T9", "DR1">>,
               <<"RP2", "T1", "DR9">>, <<"RP2", "T1", "DR3">>,
               <<"RP2", "T1", "DR1">>}}

\* the loop over the destination rates of one binding; st holds the rating
\* plan built, the calls made and whether the call returned
RECURSIVE FilteredDestinationRates(_, _, _, _)
FilteredDestinationRates(st, rp, drs, env) ==
    IF drs = <<>> \/ st.stop THEN st
    ELSE LET drate == Head(drs)
             dId == drate.DestinationId
             st1 == [st EXCEPT !.plan =
                        AddRateIntervalTo(@, dId, <<GetRateInterval(rp, drate)>>)]
             dms == GetTPDestinations(dId)
             hasData == [Call("HasData", dId) EXCEPT
                            !.pre = "read",
                            !.val = IF env.readFail THEN "error"
                                    ELSE <<DESTINATION_PREFIX, dId>> \in env.dbKeys]
             stopWith(s0, its) == [s0 EXCEPT !.items = @ \o its, !.stop = TRUE]
         IN IF env.srcFail = drate.RateId \/ drate.RateId \notin SrcRates
              THEN stopWith(st, << Return(Err("no Rates profile with id",
                                              drate.RateId)) >>)
            ELSE IF dId = ANY
              THEN FilteredDestinationRates(st1, rp, Tail(drs), env)
            ELSE IF env.srcFail = dId
              THEN stopWith(st1, << Return(ErrIO) >>)
            ELSE IF dms = <<>> /\ env.db # "nil"
              THEN IF env.readFail
                     THEN stopWith(st1, << AnyOrder({hasData}), Return(ErrIO) >>)
                     ELSE FilteredDestinationRates(
                              [st1 EXCEPT !.items = @ \o << AnyOrder({hasData}) >>],
                              rp, Tail(drs), env)
            ELSE IF dms = <<>>
              THEN stopWith(st1, << Return(Err("could not get destination for tag",
                                               dId)) >>)
            ELSE IF env.db = "nil"
              THEN stopWith(st1, << Return(Panic("nil store")) >>)
            ELSE FilteredDestinationRates(
                     [st1 EXCEPT !.items = @ \o
                         << AnyOrder({[Call("SetDestination", dId) EXCEPT
                                          !.pre = "ignored"]}),
                            AnyOrder({[Call("SetReverseDestination", dId) EXCEPT
                                          !.pre = "ignored"]}) >>],
                     rp, Tail(drs), env)

\* the loop over the bindings of one tag
RECURSIVE FilteredBindings(_, _, _)
FilteredBindings(st, rplBnds, env) ==
    IF rplBnds = <<>> \/ st.stop THEN st
    ELSE LET rp == Head(rplBnds)
             tptm == GetTPTimings(rp.TimingId)
             tpdrm == GetTPDestinationRates(rp.DestinationRatesId)
         IN IF env.srcFail = rp.TimingId \/ tptm = <<>>
              THEN [st EXCEPT !.stop = TRUE,
                      !.items = @ \o << Return(Err("no timing with id",
                                                   rp.TimingId)) >>]
            ELSE IF env.srcFail = rp.DestinationRatesId \/ tpdrm = <<>>
              THEN [st EXCEPT !.stop = TRUE,
                      !.items = @ \o
                         << Return(Err("no DestinationRates profile with id",
                                       rp.DestinationRatesId)) >>]
            ELSE FilteredBindings(
                     FilteredDestinationRates(
                         st, [rp EXCEPT !.timing = tptm[1]], tpdrm, env),
                     Tail(rplBnds), env)

\* the body of the loop over the tags for one tag: the calls of its
\* bindings and, when none returned, the write of the rating plan
FilteredPlan(tag, rplBnds, env) ==
    LET st == FilteredBindings([plan |-> EmptyMap, items |-> <<>>,
                                stop |-> FALSE], rplBnds, env)
    IN IF st.stop THEN st.items
       ELSE IF env.db = "nil" THEN st.items \o << Return(Panic("nil store")) >>
       ELSE st.items \o << AnyOrder({[Call("SetRatingPlan", tag) EXCEPT
                                         !.val = st.plan]}) >>

\* LoadRatingPlansFiltered is called: the fetch of the bindings fails, no
\* binding is returned, or it starts on the calls of its loop over the tags
LoadRatingPlansFilteredCall ==
    /\ opPc \in {"idle", "done"}
    /\ opCalls < MaxOpCalls
    /\ opCalls' = opCalls + 1
    /\ dbLog' = <<>>
    /\ \/ /\ opPc' = "done"
          /\ opAgenda' = <<>>
          /\ opRet' = ErrIO
          /\ opIn' = <<>>
       \/ \E mpRpls \in SeqsUpTo(FilteredBindingRows, MaxBindings),
             srcFail \in {"", "T1", "DR2", "RT1", "D1"}, readFail \in BOOLEAN :
             LET bindings == MapTPRatingPlanBindings(mpRpls)
                 env == [srcFail |-> srcFail, readFail |-> readFail,
                         db |-> dataStorage, dbKeys |-> dbKeys]
             IN /\ opIn' = mpRpls
                /\ Continue(<< [kind |-> "plans", calls |-> {}, err |-> ErrNil,
                                plans |-> [tag \in DOMAIN bindings |->
                                              FilteredPlan(tag, bindings[tag],
                                                           env)]] >>)
    /\ UNCHANGED dbActionPlans
    /\ UNCHANGED notFiltered

\* a step of the running LoadRatingPlansFiltered
LoadRatingPlansFilteredStep ==
    /\ RunStep
    /\ UNCHANGED <<opCalls, opIn>>
    /\ UNCHANGED notFiltered

(***************************************************************************)
(* LoadDestinationsFiltered                                                *)
(***************************************************************************)
\* utils.GenUUID for the n-th call: an id no other call has
GenUUID(n) == IF n = 1 THEN "tx1" ELSE IF n = 2 THEN "tx2" ELSE "tx3"

\* the two writes for one destination with the reverse write outside the
\* transaction
DestinationCallsReverseOutside(tpDst, transID) ==
    << AnyOrder({[Call("SetDestination", tpDst.ID) EXCEPT
                     !.pre = "rollback", !.trans = transID,
                     !.val = NewDestinationFromTPDestination(tpDst)]}),
       AnyOrder({[Call("SetReverseDestination", tpDst.ID) EXCEPT
                     !.pre = "rollback", !.trans = NonTransactional,
                     !.val = NewDestinationFromTPDestination(tpDst)]}) >>

\* the body of the loop of LoadDestinationsFiltered for the row tpDst: the
\* destination, then its reverse entries, each under transID and each
\* answered with a rollback when it fails
DestinationCalls(tpDst, transID) ==
    << AnyOrder({[Call("SetDestination", tpDst.ID) EXCEPT
                     !.pre = "rollback", !.trans = transID,
                     !.val = NewDestinationFromTPDestination(tpDst)]}),
       AnyOrder({[Call("SetReverseDestination", tpDst.ID) EXCEPT
                     !.pre = "rollback", !.trans = transID,
                     !.val = NewDestinationFromTPDestination(tpDst)]}) >>

\* the calls of LoadDestinationsFiltered for the rows tpDests, then the
\* commit
RECURSIVE DestinationsAgenda(_, _)
DestinationsAgenda(tpDests, transID) ==
    IF tpDests = <<>>
      THEN << AnyOrder({[Call("CommitTransaction", transID) EXCEPT
                            !.pre = "in memory"]}) >>
    ELSE DestinationCalls(Head(tpDests), transID)
         \o DestinationsAgenda(Tail(tpDests), transID)

\* LoadDestinationsFiltered is called: the fetch from the source fails, no
\* row is returned, or it starts on the calls of its loop
LoadDestinationsFilteredCall ==
    /\ opPc \in {"idle", "done"}
    /\ opCalls < MaxOpCalls
    /\ opCalls' = opCalls + 1
    /\ dbLog' = <<>>
    /\ \/ /\ opPc' = "done"
          /\ opAgenda' = <<>>
          /\ opRet' = ErrIO
          /\ opIn' = <<>>
       \/ \E tpDests \in SeqsUpTo(TPDestinations, MaxDestRows) :
             LET agenda == IF tpDests = <<>> THEN << Return(ErrNil) >>
                           ELSE DestinationsAgenda(tpDests,
                                                   GenUUID(opCalls + 1))
             IN /\ opIn' = tpDests
                /\ Continue(IF dataStorage = "nil" THEN WithoutStore(agenda)
                            ELSE agenda)
    /\ UNCHANGED dbActionPlans
    /\ UNCHANGED notFiltered

\* a step of the running LoadDestinationsFiltered
LoadDestinationsFilteredStep ==
    /\ RunStep
    /\ UNCHANGED <<opCalls, opIn>>
    /\ UNCHANGED notFiltered

(***************************************************************************)
(* LoadAliasesFiltered and LoadUsersFiltered                               *)
(***************************************************************************)
MaxRdRows == 2

\* the alias records a source can return: one alias key with one or two
\* values for the same destination, target and original
TpAliases ==
    {[key |-> "al1", Context |-> "*rating", Values |-> vs] :
        vs \in {<< [DestinationId |-> "D1", Target |-> "Account",
                    Original |-> "o1", Alias |-> "a1"] >>,
                << [DestinationId |-> "D1", Target |-> "Account",
                    Original |-> "o1", Alias |-> "a1"],
                   [DestinationId |-> "D1", Target |-> "Account",
                    Original |-> "o1", Alias |-> "a2"] >>}}

\* the alias LoadAliasesFiltered builds from the rows: per destination and
\* target the alias of each original, a later value replacing an earlier one
RECURSIVE AliasPairs(_, _)
AliasPairs(tpAliases, pairs) ==
    IF tpAliases = <<>> THEN pairs
    ELSE LET vs == Head(tpAliases).Values
             RECURSIVE Add(_, _)
             Add(i, ps) ==
                 IF i > Len(vs) THEN ps
                 ELSE Add(i + 1,
                          Put(ps, <<vs[i].DestinationId, vs[i].Target,
                                    vs[i].Original>>, vs[i].Alias))
         IN AliasPairs(Tail(tpAliases), Add(1, pairs))

\* LoadAliasesFiltered after the fetch answered (tpAliases, err): err is not
\* looked at, the alias of the filter is built from the rows and written
\* with its reverse entries, the outcome of neither write is looked at, and
\* err is returned
LoadAliasesFilteredAgenda(tpAliases, err) ==
    << AnyOrder({[Call("SetAlias", "filter") EXCEPT
                     !.pre = "ignored",
                     !.val = AliasPairs(tpAliases, EmptyMap)]}),
       AnyOrder({[Call("SetReverseAlias", "filter") EXCEPT
                     !.pre = "ignored",
                     !.val = AliasPairs(tpAliases, EmptyMap)]}),
       Return(err) >>

\* LoadAliasesFiltered is called: the fetch fails and returns no row, or it
\* returns rows
LoadAliasesFilteredCall ==
    /\ opPc \in {"idle", "done"}
    /\ opCalls < MaxOpCalls
    /\ opCalls' = opCalls + 1
    /\ dbLog' = <<>>
    /\ \E err \in {ErrNil, ErrIO} :
       \E tpAliases \in IF err = ErrNil THEN SeqsUpTo(TpAliases, MaxRdRows)
                        ELSE {<<>>} :
          LET agenda == LoadAliasesFilteredAgenda(tpAliases, err)
          IN /\ opIn' = <<"LoadAliasesFiltered", tpAliases>>
             /\ Continue(IF dataStorage = "nil" THEN WithoutStore(agenda)
                         ELSE agenda)
    /\ UNCHANGED dbActionPlans
    /\ UNCHANGED notFiltered

\* LoadUsersFiltered is called: the fetch fails and the call returns, or
\* each user of the rows is written, the outcome of no write looked at
LoadUsersFilteredCall ==
    /\ opPc \in {"idle", "done"}
    /\ opCalls < MaxOpCalls
    /\ opCalls' = opCalls + 1
    /\ dbLog' = <<>>
    /\ \/ /\ opPc' = "done"
          /\ opAgenda' = <<>>
          /\ opRet' = ErrIO
          /\ opIn' = <<"LoadUsersFiltered", <<>> >>
       \/ \E tpUsers \in SeqsUpTo({"u1", "u2"}, MaxRdRows) :
             LET agenda == [i \in 1..Len(tpUsers) |->
                               AnyOrder({[Call("SetUser", tpUsers[i]) EXCEPT
                                             !.pre = "ignored"]})]
                           \o << Return(ErrNil) >>
             IN /\ opIn' = <<"LoadUsersFiltered", tpUsers>>
                /\ Continue(IF dataStorage = "nil" THEN WithoutStore(agenda)
                            ELSE agenda)
    /\ UNCHANGED dbActionPlans
    /\ UNCHANGED notFiltered

\* the loop of LoadSharedGroupsFiltered over the rows, which stand in the
\* order of their tags: the row is put in the shared group of its tag, made
\* when the reader holds none
RECURSIVE LoadSharedGroupRows(_, _)
LoadSharedGroupRows(sgs, tps) ==
    IF tps = <<>> THEN sgs
    ELSE LET tpSg == Head(tps)
             sg == IF tpSg.tag \in DOMAIN sgs THEN sgs[tpSg.tag]
                   ELSE [Id |-> tpSg.tag, AccountParameters |-> EmptyMap]
         IN LoadSharedGroupRows(
                Put(sgs, tpSg.tag,
                    [sg EXCEPT !.AccountParameters =
                        Put(@, tpSg.Account, tpSg.Strategy)]),
                Tail(tps))

\* LoadSharedGroupsFiltered(tag, save) is called on a source that holds the
\* shared groups "SG1" and "SG2": the source is asked for the shared groups
\* of the tag "", which are all it holds, and the fetch fails or returns
\* them; with save every shared group of the reader is written
LoadSharedGroupsFilteredCall ==
    /\ opPc \in {"idle", "done"}
    /\ opCalls < MaxOpCalls
    /\ opCalls' = opCalls + 1
    /\ dbLog' = <<>>
    /\ \E tag \in {"SG1", "SG2"}, save \in BOOLEAN, fails \in BOOLEAN :
          LET asked == ""
              held == << [tag |-> "SG1", Account |-> "acc1",
                          Strategy |-> "*lowest"],
                         [tag |-> "SG2", Account |-> "acc2",
                          Strategy |-> "*highest"] >>
              tps == IF fails THEN <<>>
                     ELSE SelectSeq(held,
                                    LAMBDA r : asked = "" \/ r.tag = asked)
              sgs == LoadSharedGroupRows(sharedGroups, tps)
              agenda == (IF save THEN << SetCalls("SetSharedGroup", sgs) >>
                         ELSE <<>>) \o << Return(ErrNil) >>
          IN /\ opIn' = <<"LoadSharedGroupsFiltered",
                          [tag |-> tag, save |-> save, asked |-> asked,
                           rows |-> tps]>>
             /\ IF fails
                  THEN /\ opPc' = "done"
                       /\ opAgenda' = <<>>
                       /\ opRet' = ErrIO
                       /\ UNCHANGED sharedGroups
                ELSE /\ sharedGroups' = sgs
                     /\ Continue(IF dataStorage = "nil"
                                   THEN WithoutStore(agenda)
                                 ELSE agenda)
    /\ UNCHANGED dbActionPlans
    /\ UNCHANGED <<laVars, rpVars, dstVars, dbVars, accVars, rdVars,
                   ratingProfiles, lcrs, derivedChargers, cdrStats, users,
                   aliases, resLimits>>

\* a step of the running load-filtered call
LoadFilteredStep ==
    /\ RunStep
    /\ UNCHANGED <<opCalls, opIn>>
    /\ UNCHANGED notFiltered

(***************************************************************************)
(* The reader: Init, GetLoadedIds and the load-all steps that resolve      *)
(* references against the maps of the reader and the store                 *)
(***************************************************************************)
\* the categories GetLoadedIds knows; those without a name of their own here
\* are the prefixes of the rating profiles, action plans, derived chargers,
\* cdr stats, shared groups, users, aliases, resource limits, action
\* triggers and LCRs
Categories ==
    {DESTINATION_PREFIX, REVERSE_DESTINATION_PREFIX, RATING_PLAN_PREFIX,
     "rpf_", ACTION_PREFIX, "apl_",
     AccountActionPlansPrefix, "dcs_", "cst_",
     "shg_", "usr_", "als_",
     REVERSE_ALIASES_PREFIX, "rlm_", "atr_",
     "lcr_"}

\* GetLoadedIds with the keys of the action triggers for the category of the
\* reverse destinations
GetLoadedIdsWrongMap(categ) ==
    CASE categ = DESTINATION_PREFIX -> DOMAIN destinations
      [] categ = REVERSE_DESTINATION_PREFIX -> DOMAIN actionsTriggers
      [] categ = RATING_PLAN_PREFIX -> DOMAIN ratingPlans
      [] categ = "rpf_" -> DOMAIN ratingProfiles
      [] categ = ACTION_PREFIX -> actions
      [] categ = "apl_" -> DOMAIN actionPlans
      [] categ = AccountActionPlansPrefix -> DOMAIN acntActionPlans
      [] categ = "dcs_" -> DOMAIN derivedChargers
      [] categ = "cst_" -> DOMAIN cdrStats
      [] categ = "shg_" -> DOMAIN sharedGroups
      [] categ = "usr_" -> DOMAIN users
      [] categ = "als_" -> DOMAIN aliases
      [] categ = REVERSE_ALIASES_PREFIX -> DOMAIN revAliases
      [] categ = "rlm_" -> DOMAIN resLimits
      [] categ = "atr_" -> DOMAIN actionsTriggers
      [] categ = "lcr_" -> DOMAIN lcrs

\* GetLoadedIds: the keys of the map of category categ, one of Categories
GetLoadedIds(categ) ==
    CASE categ = DESTINATION_PREFIX -> DOMAIN destinations
      [] categ = REVERSE_DESTINATION_PREFIX -> DOMAIN revDests
      [] categ = RATING_PLAN_PREFIX -> DOMAIN ratingPlans
      [] categ = "rpf_" -> DOMAIN ratingProfiles
      [] categ = ACTION_PREFIX -> actions
      [] categ = "apl_" -> DOMAIN actionPlans
      [] categ = AccountActionPlansPrefix -> DOMAIN acntActionPlans
      [] categ = "dcs_" -> DOMAIN derivedChargers
      [] categ = "cst_" -> DOMAIN cdrStats
      [] categ = "shg_" -> DOMAIN sharedGroups
      [] categ = "usr_" -> DOMAIN users
      [] categ = "als_" -> DOMAIN aliases
      [] categ = REVERSE_ALIASES_PREFIX -> DOMAIN revAliases
      [] categ = "rlm_" -> DOMAIN resLimits
      [] categ = "atr_" -> DOMAIN actionsTriggers
      [] categ = "lcr_" -> DOMAIN lcrs

\* what the load steps of the reader leave alone besides their own map
notLoadStep ==
    <<actions, actionPlans, accountActions, acntActionPlans, apErr, accErr,
      apLoads, accLoads, accLast, ratingPlans, rpErr, lastAdd, dstVars,
      sharedGroups, derivedChargers, cdrStats, users, resLimits, rates>>

\* GetLoadedIds is called with a category, "tmg_" and "rat_" being
\* categories it has no case for: it returns the keys of the map in the order
\* the iteration over the map yields them, or an error and no key; in the
\* record of the call loaded is the category
GetLoadedIdsCall ==
    /\ rdLoads < MaxRdLoads
    /\ rdLoads' = rdLoads + 1
    /\ \E categ \in Categories \cup {"tmg_", "rat_"} :
          IF categ \in Categories
            THEN \E keys \in Orders(GetLoadedIds(categ)) :
                    /\ rdLast' = [op |-> "GetLoadedIds", loaded |-> {categ},
                                  rows |-> keys]
                    /\ rdErr' = ErrNil
          ELSE /\ rdLast' = [op |-> "GetLoadedIds", loaded |-> {categ},
                             rows |-> <<>>]
               /\ rdErr' = Err("Unsupported load category", "")
    /\ dbQueries' = <<>>
    /\ UNCHANGED <<timings, destinationRates, actionsTriggers, ratingProfiles,
                   lcrs, aliases, revAliases>>
    /\ UNCHANGED notLoadStep
    /\ UNCHANGED notReader

\* the loop of IsValid stopping at the first rating plan with a violation
RECURSIVE IsValidPlansStopAtFirst(_, _, _)
IsValidPlansStopAtFirst(st, tags, checks) ==
    IF tags = <<>> THEN st
    ELSE LET rplTag == Head(tags)
             c == checks[rplTag]
             log1 == IF ~c.isContinous
                       THEN << <<rplTag, "is not covering all weekdays">> >>
                     ELSE <<>>
             log2 == IF c.crazyRate # ""
                       THEN << <<c.crazyRate, "rate is invalid">> >>
                     ELSE <<>>
             log3 == IF c.crazyTiming # ""
                       THEN << <<c.crazyTiming, "timing is invalid">> >>
                     ELSE <<>>
             bad == ~c.isContinous \/ c.crazyRate # "" \/ c.crazyTiming # ""
         IN IF bad
              THEN [valid |-> FALSE, log |-> st.log \o log1 \o log2 \o log3]
            ELSE IsValidPlansStopAtFirst(st, Tail(tags), checks)

\* the loop of IsValid over the rating plans tags; checks[tag] is what
\* isContinous, getFirstUnsaneRating and getFirstUnsaneTiming answer for the
\* plan, log the lines written with log.Printf
RECURSIVE IsValidPlans(_, _, _)
IsValidPlans(st, tags, checks) ==
    IF tags = <<>> THEN st
    ELSE LET rplTag == Head(tags)
             c == checks[rplTag]
             log1 == IF ~c.isContinous
                       THEN << <<rplTag, "is not covering all weekdays">> >>
                     ELSE <<>>
             log2 == IF c.crazyRate # ""
                       THEN << <<c.crazyRate, "rate is invalid">> >>
                     ELSE <<>>
             log3 == IF c.crazyTiming # ""
                       THEN << <<c.crazyTiming, "timing is invalid">> >>
                     ELSE <<>>
             bad == ~c.isContinous \/ c.crazyRate # "" \/ c.crazyTiming # ""
         IN IsValidPlans([valid |-> st.valid /\ ~bad,
                          log |-> st.log \o log1 \o log2 \o log3],
                         Tail(tags), checks)

\* IsValid is called: the rating plans answer the three checks in any way
\* and are visited in any order; the record of the call holds the answers,
\* the lines logged and the result
IsValid ==
    /\ rdLoads < MaxRdLoads
    /\ rdLoads' = rdLoads + 1
    /\ \E checks \in [DOMAIN ratingPlans ->
                          [isContinous : BOOLEAN, crazyRate : {"", "R1"},
                           crazyTiming : {"", "T1"}]] :
       \E tags \in Orders(DOMAIN ratingPlans) :
          LET r == IsValidPlans([valid |-> TRUE, log |-> <<>>], tags, checks)
          IN rdLast' = [op |-> "IsValid", loaded |-> {}, rows |-> r.log,
                        checks |-> checks, valid |-> r.valid]
    /\ rdErr' = ErrNil
    /\ dbQueries' = <<>>
    /\ UNCHANGED <<timings, destinationRates, actionsTriggers, ratingProfiles,
                   lcrs, aliases, revAliases>>
    /\ UNCHANGED notLoadStep
    /\ UNCHANGED notReader

\* Init without the reset of acntActionPlans
TpReaderInitKeepsIndex ==
    /\ rdLast' = [op |-> "Init", rows |-> <<>>,
                  loaded |-> {c \in Categories : GetLoadedIds(c) # {}}]
    /\ actions' = {}
    /\ actionPlans' = EmptyMap
    /\ actionsTriggers' = EmptyMap
    /\ rates' = EmptyMap
    /\ destinations' = EmptyMap
    /\ destinationRates' = EmptyMap
    /\ timings' = EmptyMap
    /\ ratingPlans' = EmptyMap
    /\ ratingProfiles' = EmptyMap
    /\ sharedGroups' = EmptyMap
    /\ lcrs' = EmptyMap
    /\ accountActions' = EmptyMap
    /\ cdrStats' = EmptyMap
    /\ users' = EmptyMap
    /\ aliases' = EmptyMap
    /\ derivedChargers' = EmptyMap
    /\ resLimits' = EmptyMap
    /\ revDests' = EmptyMap
    /\ revAliases' = EmptyMap
    /\ dbQueries' = <<>>
    /\ UNCHANGED <<acntActionPlans, rpErr, lastAdd, dstErr, dstLoads, apErr,
                   accErr, apLoads, accLoads, accLast, rdErr, rdLoads>>
    /\ UNCHANGED notReader

\* Init: every map of the reader is made anew
TpReaderInit ==
    /\ rdLast' = [op |-> "Init", rows |-> <<>>,
                  loaded |-> {c \in Categories : GetLoadedIds(c) # {}}]
    /\ actions' = {}
    /\ actionPlans' = EmptyMap
    /\ actionsTriggers' = EmptyMap
    /\ rates' = EmptyMap
    /\ destinations' = EmptyMap
    /\ destinationRates' = EmptyMap
    /\ timings' = EmptyMap
    /\ ratingPlans' = EmptyMap
    /\ ratingProfiles' = EmptyMap
    /\ sharedGroups' = EmptyMap
    /\ lcrs' = EmptyMap
    /\ accountActions' = EmptyMap
    /\ cdrStats' = EmptyMap
    /\ users' = EmptyMap
    /\ aliases' = EmptyMap
    /\ derivedChargers' = EmptyMap
    /\ resLimits' = EmptyMap
    /\ revDests' = EmptyMap
    /\ revAliases' = EmptyMap
    /\ acntActionPlans' = EmptyMap
    /\ dbQueries' = <<>>
    /\ UNCHANGED <<rpErr, lastAdd, dstErr, dstLoads, apErr, accErr, apLoads,
                   accLoads, accLast, rdErr, rdLoads>>
    /\ UNCHANGED notReader

\* timing rows a source can return to LoadTimings; the last carries the tag
\* *asap with a start time of its own
TimingRows ==
    {SrcTimings["T1"], SrcTimings["T2"],
     TPTiming(ASAP, "2016", "workdays", "12:00:00")}

\* LoadTimings: the source fetch fails, or returns rows
LoadTimings ==
    /\ rdLoads < MaxRdLoads
    /\ rdLoads' = rdLoads + 1
    /\ \/ /\ rdErr' = ErrIO
          /\ UNCHANGED timings
       \/ \E tps \in SeqsUpTo(TimingRows, MaxRdRows) :
             /\ timings' = TimingsOf(tps)
             /\ rdErr' = ErrNil
    /\ rdLast' = ReaderOp("LoadTimings")
    /\ dbQueries' = <<>>
    /\ UNCHANGED <<destinationRates, actionsTriggers, ratingProfiles>>
    /\ UNCHANGED <<lcrs, aliases, revAliases>>
    /\ UNCHANGED notLoadStep
    /\ UNCHANGED notReader

\* the rates a source holds, as LoadRates maps them
SrcRateMap == [r \in SrcRates |-> IF r = "RT1" THEN <<"R1">> ELSE <<"R2">>]

\* destination-rate rows a source can return; "D3" is a destination that
\* only the store holds and "D9" a tag that nothing defines; a reader that
\* has loaded no rates holds neither "RT1" nor "RT2"
DrRows ==
    {[tag |-> r[1], DestinationId |-> r[2], RateId |-> r[3]] :
        r \in {<<"DR1", "D1", "RT1">>, <<"DR1", "D3", "RT1">>,
               <<"DR2", "D9", "RT2">>, <<"DR2", ANY, "RT2">>}}

\* MapTPDestinationRates: the rows of each tag, in row order, their rate not
\* yet set
MapTPDestinationRates(tps) ==
    [tag \in {tps[i].tag : i \in 1..Len(tps)} |->
        LET rows == SelectSeq(tps, LAMBDA r : r.tag = tag)
        IN [i \in 1..Len(rows) |->
               DestinationRate(rows[i].DestinationId, rows[i].RateId, <<>>)]]

\* the entries <<tag, index>> of the lists of m, tag by tag in the order ids
RECURSIVE Entries(_, _)
Entries(m, ids) ==
    IF ids = <<>> THEN <<>>
    ELSE [i \in 1..Len(m[Head(ids)]) |-> <<Head(ids), i>>]
         \o Entries(m, Tail(ids))

\* the loop of LoadDestinationRates with a probe of the store for every
\* destination, loaded or not
RECURSIVE ResolveDestinationRatesAlwaysProbes(_, _, _)
ResolveDestinationRatesAlwaysProbes(st, work, env) ==
    IF work = <<>> THEN st
    ELSE LET tag == Head(work)[1]
             i == Head(work)[2]
             dr == st.drs[tag][i]
             inMem == \/ dr.DestinationId = ANY
                      \/ dr.DestinationId \in env.destinations
             probe == env.db # "nil"
             q1 == IF probe
                     THEN Append(st.q, Query("HasData", DESTINATION_PREFIX,
                                             dr.DestinationId))
                   ELSE st.q
             exists == \/ inMem
                       \/ probe /\ <<DESTINATION_PREFIX, dr.DestinationId>>
                                       \in env.dbKeys
         IN IF dr.RateId \notin DOMAIN env.rates
              THEN [st EXCEPT !.err =
                      Err("could not find rate for tag", dr.RateId)]
            ELSE LET st1 == [st EXCEPT !.drs[tag][i].Rate = env.rates[dr.RateId],
                                       !.q = q1]
                 IN IF probe /\ Len(q1) = env.failAt
                      THEN [st1 EXCEPT !.err = ErrIO]
                    ELSE IF ~exists
                      THEN [st1 EXCEPT !.err =
                              Err("could not get destination for tag",
                                  dr.DestinationId)]
                    ELSE ResolveDestinationRatesAlwaysProbes(st1, Tail(work),
                                                             env)

\* the loop of LoadDestinationRates over the entries work; st is the map so
\* far, the error and the probes made, env the maps it reads, the store and
\* the probe at which the store fails
RECURSIVE ResolveDestinationRates(_, _, _)
ResolveDestinationRates(st, work, env) ==
    IF work = <<>> THEN st
    ELSE LET tag == Head(work)[1]
             i == Head(work)[2]
             dr == st.drs[tag][i]
             inMem == \/ dr.DestinationId = ANY
                      \/ dr.DestinationId \in env.destinations
             probe == ~inMem /\ env.db # "nil"
             q1 == IF probe
                     THEN Append(st.q, Query("HasData", DESTINATION_PREFIX,
                                             dr.DestinationId))
                   ELSE st.q
             exists == \/ inMem
                       \/ probe /\ <<DESTINATION_PREFIX, dr.DestinationId>>
                                       \in env.dbKeys
         IN IF dr.RateId \notin DOMAIN env.rates
              THEN [st EXCEPT !.err =
                      Err("could not find rate for tag", dr.RateId)]
            ELSE LET st1 == [st EXCEPT !.drs[tag][i].Rate = env.rates[dr.RateId],
                                       !.q = q1]
                 IN IF probe /\ Len(q1) = env.failAt
                      THEN [st1 EXCEPT !.err = ErrIO]
                    ELSE IF ~exists
                      THEN [st1 EXCEPT !.err =
                              Err("could not get destination for tag",
                                  dr.DestinationId)]
                    ELSE ResolveDestinationRates(st1, Tail(work), env)

\* LoadDestinationRates: the source fetch fails, or returns rows; the map of
\* the reader is replaced before the references are resolved
LoadDestinationRates ==
    /\ rdLoads < MaxRdLoads
    /\ rdLoads' = rdLoads + 1
    /\ \/ /\ rdErr' = ErrIO
          /\ dbQueries' = <<>>
          /\ UNCHANGED destinationRates
       \/ \E tps \in SeqsUpTo(DrRows, MaxRdRows), failAt \in 0..MaxRdRows :
             LET m == MapTPDestinationRates(tps) IN
             \E ids \in Orders(DOMAIN m) :
                 LET r == ResolveDestinationRates(
                              [drs |-> m, err |-> ErrNil, q |-> <<>>],
                              Entries(m, ids),
                              [rates |-> rates,
                               destinations |-> DOMAIN destinations,
                               db |-> dataStorage, dbKeys |-> dbKeys,
                               failAt |-> failAt])
                 IN /\ destinationRates' = r.drs
                    /\ rdErr' = r.err
                    /\ dbQueries' = r.q
    /\ rdLast' = ReaderOp("LoadDestinationRates")
    /\ UNCHANGED <<timings, actionsTriggers, ratingProfiles>>
    /\ UNCHANGED <<lcrs, aliases, revAliases>>
    /\ UNCHANGED notLoadStep
    /\ UNCHANGED notReader

\* rating-profile rows a source can return; "RP3" is a rating plan that only
\* the store holds, "RP9" a tag that nothing defines, and the last row has
\* an activation time that does not parse
RpfRows ==
    {[key |-> r[1], RatingPlanId |-> r[2], ActivationTime |-> r[3]] :
        r \in {<<"k1", "RP1", "2016-01-01">>, <<"k1", "RP3", "2016-01-01">>,
               <<"k2", "RP9", "2016-01-01">>, <<"k1", "RP1", "bad">>}}

\* MapTPRatingProfiles: the activations of each profile key, in row order
MapTPRatingProfiles(tps) ==
    [key \in {tps[i].key : i \in 1..Len(tps)} |->
        SelectSeq(tps, LAMBDA r : r.key = key)]

\* the loop over the activations with the error of the parse dropped
RECURSIVE LoadRatingPlanActivationsParseIgnored(_, _, _, _)
LoadRatingPlanActivationsParseIgnored(st, rpf, tpRas, env) ==
    IF tpRas = <<>> THEN [st EXCEPT !.rpfs = Put(@, rpf.Id, rpf)]
    ELSE LET tpRa == Head(tpRas)
             inMem == tpRa.RatingPlanId \in env.ratingPlans
         IN IF ~inMem
              THEN [st EXCEPT !.err =
                      Err("could not load rating plans for tag",
                          tpRa.RatingPlanId)]
            ELSE LoadRatingPlanActivationsParseIgnored(
                     st,
                     [rpf EXCEPT !.RatingPlanActivations =
                         Append(@, [ActivationTime |-> tpRa.ActivationTime,
                                    RatingPlanId |-> tpRa.RatingPlanId])],
                     Tail(tpRas), env)

\* the loop of LoadRatingProfiles and of LoadRatingProfilesFiltered over the
\* activations tpRas of one profile
RECURSIVE LoadRatingPlanActivations(_, _, _, _)
LoadRatingPlanActivations(st, rpf, tpRas, env) ==
    IF tpRas = <<>> THEN [st EXCEPT !.rpfs = Put(@, rpf.Id, rpf)]
    ELSE LET tpRa == Head(tpRas)
             inMem == tpRa.RatingPlanId \in env.ratingPlans
             probe == ~inMem /\ env.db # "nil"
             q1 == IF probe
                     THEN Append(st.q, Query("HasData", RATING_PLAN_PREFIX,
                                             tpRa.RatingPlanId))
                   ELSE st.q
             exists == \/ inMem
                       \/ probe /\ <<RATING_PLAN_PREFIX, tpRa.RatingPlanId>>
                                       \in env.dbKeys
         IN IF tpRa.ActivationTime = "bad"
              THEN [st EXCEPT !.err =
                      Err("cannot parse activation time from",
                          tpRa.ActivationTime)]
            ELSE IF probe /\ Len(q1) = env.failAt
              THEN [st EXCEPT !.q = q1, !.err = ErrIO]
            ELSE IF ~exists
              THEN [st EXCEPT !.q = q1,
                      !.err = Err("could not load rating plans for tag",
                                  tpRa.RatingPlanId)]
            ELSE LoadRatingPlanActivations(
                     [st EXCEPT !.q = q1],
                     [rpf EXCEPT !.RatingPlanActivations =
                         Append(@, [ActivationTime |-> tpRa.ActivationTime,
                                    RatingPlanId |-> tpRa.RatingPlanId])],
                     Tail(tpRas), env)

\* the loop of LoadRatingProfiles over the profile keys, in the order ids
RECURSIVE LoadRatingProfileKeys(_, _, _, _)
LoadRatingProfileKeys(st, ids, mpTpRpfs, env) ==
    IF ids = <<>> THEN st
    ELSE LET r == LoadRatingPlanActivations(
                      st, [Id |-> Head(ids), RatingPlanActivations |-> <<>>],
                      mpTpRpfs[Head(ids)], env)
         IN IF r.err # ErrNil THEN r
            ELSE LoadRatingProfileKeys(r, Tail(ids), mpTpRpfs, env)

\* LoadRatingProfiles: the source fetch fails, or returns rows
LoadRatingProfiles ==
    /\ rdLoads < MaxRdLoads
    /\ rdLoads' = rdLoads + 1
    /\ \/ /\ rdErr' = ErrIO
          /\ dbQueries' = <<>>
          /\ rdLast' = [op |-> "LoadRatingProfiles", loaded |-> {},
                        rows |-> <<>>, refs |-> {}]
          /\ UNCHANGED ratingProfiles
       \/ \E tps \in SeqsUpTo(RpfRows, MaxRdRows), failAt \in 0..MaxRdRows :
             LET m == MapTPRatingProfiles(tps) IN
             \E ids \in Orders(DOMAIN m) :
                 LET r == LoadRatingProfileKeys(
                              [rpfs |-> ratingProfiles, err |-> ErrNil,
                               q |-> <<>>],
                              ids, m,
                              [ratingPlans |-> DOMAIN ratingPlans,
                               db |-> dataStorage, dbKeys |-> dbKeys,
                               failAt |-> failAt])
                 IN /\ ratingProfiles' = r.rpfs
                    /\ rdErr' = r.err
                    /\ dbQueries' = r.q
                    /\ rdLast' = [op |-> "LoadRatingProfiles",
                                  loaded |-> {},
                                  rows |-> SelectSeq(tps, LAMBDA row :
                                              row.ActivationTime = "bad"),
                                  refs |-> {tps[i].RatingPlanId :
                                              i \in 1..Len(tps)}]
    /\ UNCHANGED <<timings, destinationRates, actionsTriggers>>
    /\ UNCHANGED <<lcrs, aliases, revAliases>>
    /\ UNCHANGED notLoadStep
    /\ UNCHANGED notReader

\* the calls of LoadRatingProfilesFiltered for the profile keys ids: the
\* activations of a profile are checked, then the profile is written; q is
\* the probes made so far
RECURSIVE RatingProfilesAgenda(_, _, _, _)
RatingProfilesAgenda(q, ids, rpfs, env) ==
    IF ids = <<>> THEN << Return(ErrNil) >>
    ELSE LET r == LoadRatingPlanActivations(
                      [rpfs |-> EmptyMap, err |-> ErrNil, q |-> q],
                      [Id |-> Head(ids), RatingPlanActivations |-> <<>>],
                      rpfs[Head(ids)], env)
         IN IF r.err # ErrNil THEN << Return(r.err) >>
            ELSE << AnyOrder({[Call("SetRatingProfile", Head(ids)) EXCEPT
                                  !.val = r.rpfs[Head(ids)]]}) >>
                 \o RatingProfilesAgenda(r.q, Tail(ids), rpfs, env)

\* LoadRatingProfilesFiltered is called: the fetch from the source fails, or
\* it starts on the profiles of the rows
LoadRatingProfilesFilteredCall ==
    /\ opPc \in {"idle", "done"}
    /\ opCalls < MaxOpCalls
    /\ opCalls' = opCalls + 1
    /\ dbLog' = <<>>
    /\ \/ /\ opPc' = "done"
          /\ opAgenda' = <<>>
          /\ opRet' = Err("no RateProfile for filter, error", "io error")
          /\ opIn' = <<"LoadRatingProfilesFiltered", <<>> >>
       \/ \E tps \in SeqsUpTo(RpfRows, MaxRdRows), failAt \in 0..MaxRdRows :
             LET m == MapTPRatingProfiles(tps) IN
             \E ids \in Orders(DOMAIN m) :
                LET agenda == RatingProfilesAgenda(
                                  <<>>, ids, m,
                                  [ratingPlans |-> DOMAIN ratingPlans,
                                   db |-> dataStorage, dbKeys |-> dbKeys,
                                   failAt |-> failAt])
                IN /\ opIn' = <<"LoadRatingProfilesFiltered", tps>>
                   /\ Continue(IF dataStorage = "nil"
                                 THEN WithoutStore(agenda)
                               ELSE agenda)
    /\ UNCHANGED dbActionPlans
    /\ UNCHANGED notFiltered

\* action-trigger rows a source can return; "A3" is an action that only the
\* store holds, "A9" a tag that nothing defines, and the last row has an
\* expiration date that does not parse
TrigRows ==
    {[Id |-> r[1], ActionsId |-> r[2], ExpirationDate |-> r[3]] :
        r \in {<<"TR1", "A1", "*unlimited">>, <<"TR1", "A3", "*unlimited">>,
               <<"TR2", "A9", "*unlimited">>, <<"TR2", "A1", "bad">>}}

\* MapTPActionTriggers: the rows of each trigger tag, in row order
MapTPActionTriggers(tps) ==
    [id \in {tps[i].Id : i \in 1..Len(tps)} |->
        SelectSeq(tps, LAMBDA r : r.Id = id)]

\* the ActionTrigger that LoadActionTriggers builds from row atr of tag key
ActionTrigger(key, atr) ==
    [ID |-> key, ExpirationDate |-> atr.ExpirationDate,
     ActionsID |-> atr.ActionsId]

\* the triggers map of a reader that loaded one trigger of action "A1"
LoadedTriggers ==
    [k \in {"TR1"} |->
        << ActionTrigger("TR1", [Id |-> "TR1", ActionsId |-> "A1",
                                 ExpirationDate |-> "*unlimited"]) >>]

\* the loop of LoadActionTriggers over the trigger tags, in the order ids
RECURSIVE LoadActionTriggerKeys(_, _, _)
LoadActionTriggerKeys(st, ids, storAts) ==
    IF ids = <<>> THEN st
    ELSE LET key == Head(ids)
             atrsLst == storAts[key]
             bad == {i \in 1..Len(atrsLst) : atrsLst[i].ExpirationDate = "bad"}
         IN IF bad # {}
              THEN [st EXCEPT !.err = Err("parse error", "bad")]
            ELSE LoadActionTriggerKeys(
                     [st EXCEPT !.atrs =
                         Put(@, key, [i \in 1..Len(atrsLst) |->
                                         ActionTrigger(key, atrsLst[i])])],
                     Tail(ids), storAts)

\* LoadActionTriggers: the source fetch fails, or returns rows
LoadActionTriggers ==
    /\ rdLoads < MaxRdLoads
    /\ rdLoads' = rdLoads + 1
    /\ \/ /\ rdErr' = ErrIO
          /\ UNCHANGED actionsTriggers
       \/ \E tps \in SeqsUpTo(TrigRows, MaxRdRows) :
             LET storAts == MapTPActionTriggers(tps) IN
             \E ids \in Orders(DOMAIN storAts) :
                 LET r == LoadActionTriggerKeys(
                              [atrs |-> actionsTriggers, err |-> ErrNil],
                              ids, storAts)
                 IN /\ actionsTriggers' = r.atrs
                    /\ rdErr' = r.err
    /\ rdLast' = ReaderOp("LoadActionTriggers")
    /\ dbQueries' = <<>>
    /\ UNCHANGED <<timings, destinationRates, ratingProfiles>>
    /\ UNCHANGED <<lcrs, aliases, revAliases>>
    /\ UNCHANGED notLoadStep
    /\ UNCHANGED notReader

\* the loop of LoadLCRs over the rules without the check of the destination
RECURSIVE LoadLcrRulesAnyDestination(_, _, _)
LoadLcrRulesAnyDestination(st, rules, env) ==
    IF rules = <<>> THEN st
    ELSE LET rule == Head(rules)
             HasPrefix(key, p) == p = "k" /\ key \in {"k1", "k2", "k3"}
             inMemRp == \E k \in env.ratingProfiles :
                           HasPrefix(k, rule.RpCategory)
             probeRp == ~inMemRp /\ env.db # "nil"
             q1 == IF probeRp
                     THEN Append(st.q, Query("GetKeysForPrefix", "rpf_",
                                             rule.RpCategory))
                   ELSE st.q
             foundRp == \/ inMemRp
                        \/ probeRp /\ \E k \in env.dbKeys :
                                         /\ k[1] = "rpf_"
                                         /\ HasPrefix(k[2], rule.RpCategory)
             needDst == FALSE
             inMemDst == rule.DestinationId \in env.destinations
             probeDst == needDst /\ ~inMemDst /\ env.db # "nil"
             q2 == IF probeDst
                     THEN Append(q1, Query("HasData", DESTINATION_PREFIX,
                                           rule.DestinationId))
                   ELSE q1
             foundDst == \/ inMemDst
                         \/ probeDst /\ <<DESTINATION_PREFIX,
                                          rule.DestinationId>> \in env.dbKeys
             activationTime == IF rule.ActivationTime = "bad"
                                 THEN "0001-01-01T00:00:00Z"
                               ELSE rule.ActivationTime
             lcr == IF rule.tag \in DOMAIN st.lcrs THEN st.lcrs[rule.tag]
                    ELSE <<>>
             same == {i \in 1..Len(lcr) :
                         lcr[i].ActivationTime = activationTime}
             entry == [DestinationId |-> rule.DestinationId,
                       RPCategory |-> rule.RpCategory]
             acts == IF same = {}
                       THEN Append(lcr, [ActivationTime |-> activationTime,
                                         Entries |-> << entry >>])
                     ELSE LET i == CHOOSE n \in same : \A m \in same : n <= m
                          IN [lcr EXCEPT ![i].Entries = Append(@, entry)]
         IN IF probeRp /\ Len(q1) = env.failAt
              THEN [st EXCEPT !.q = q1,
                      !.err = Err("[LCR] error querying dataDb", "io error")]
            ELSE IF ~foundRp
              THEN [st EXCEPT !.q = q1,
                      !.err = Err("[LCR] could not find ratingProfiles with prefix",
                                  rule.RpCategory)]
            ELSE IF probeDst /\ Len(q2) = env.failAt
              THEN [st EXCEPT !.q = q2,
                      !.err = Err("[LCR] error querying dataDb", "io error")]
            ELSE IF needDst /\ ~foundDst
              THEN [st EXCEPT !.q = q2,
                      !.err = Err("[LCR] could not find destination with tag",
                                  rule.DestinationId)]
            ELSE LoadLcrRulesAnyDestination([st EXCEPT !.q = q2,
                                 !.lcrs = Put(@, rule.tag, acts)],
                              Tail(rules), env)

\* the loop of LoadLCRs over the rules, each with the tag of its LCR: the
\* rating-profile prefix and the destination are resolved in memory, then in
\* the store; the activation time is parsed and the error of the parse
\* dropped, which leaves the zero time; the entry goes to the activation of
\* that time and the LCR is stored before the next rule
RECURSIVE LoadLcrRules(_, _, _)
LoadLcrRules(st, rules, env) ==
    IF rules = <<>> THEN st
    ELSE LET rule == Head(rules)
             HasPrefix(key, p) == p = "k" /\ key \in {"k1", "k2", "k3"}
             inMemRp == \E k \in env.ratingProfiles :
                           HasPrefix(k, rule.RpCategory)
             probeRp == ~inMemRp /\ env.db # "nil"
             q1 == IF probeRp
                     THEN Append(st.q, Query("GetKeysForPrefix", "rpf_",
                                             rule.RpCategory))
                   ELSE st.q
             foundRp == \/ inMemRp
                        \/ probeRp /\ \E k \in env.dbKeys :
                                         /\ k[1] = "rpf_"
                                         /\ HasPrefix(k[2], rule.RpCategory)
             needDst == rule.DestinationId \notin {"", ANY}
             inMemDst == rule.DestinationId \in env.destinations
             probeDst == needDst /\ ~inMemDst /\ env.db # "nil"
             q2 == IF probeDst
                     THEN Append(q1, Query("HasData", DESTINATION_PREFIX,
                                           rule.DestinationId))
                   ELSE q1
             foundDst == \/ inMemDst
                         \/ probeDst /\ <<DESTINATION_PREFIX,
                                          rule.DestinationId>> \in env.dbKeys
             activationTime == IF rule.ActivationTime = "bad"
                                 THEN "0001-01-01T00:00:00Z"
                               ELSE rule.ActivationTime
             lcr == IF rule.tag \in DOMAIN st.lcrs THEN st.lcrs[rule.tag]
                    ELSE <<>>
             same == {i \in 1..Len(lcr) :
                         lcr[i].ActivationTime = activationTime}
             entry == [DestinationId |-> rule.DestinationId,
                       RPCategory |-> rule.RpCategory]
             acts == IF same = {}
                       THEN Append(lcr, [ActivationTime |-> activationTime,
                                         Entries |-> << entry >>])
                     ELSE LET i == CHOOSE n \in same : \A m \in same : n <= m
                          IN [lcr EXCEPT ![i].Entries = Append(@, entry)]
         IN IF probeRp /\ Len(q1) = env.failAt
              THEN [st EXCEPT !.q = q1,
                      !.err = Err("[LCR] error querying dataDb", "io error")]
            ELSE IF ~foundRp
              THEN [st EXCEPT !.q = q1,
                      !.err = Err("[LCR] could not find ratingProfiles with prefix",
                                  rule.RpCategory)]
            ELSE IF probeDst /\ Len(q2) = env.failAt
              THEN [st EXCEPT !.q = q2,
                      !.err = Err("[LCR] error querying dataDb", "io error")]
            ELSE IF needDst /\ ~foundDst
              THEN [st EXCEPT !.q = q2,
                      !.err = Err("[LCR] could not find destination with tag",
                                  rule.DestinationId)]
            ELSE LoadLcrRules([st EXCEPT !.q = q2,
                                 !.lcrs = Put(@, rule.tag, acts)],
                              Tail(rules), env)

\* LoadLCRs: the source fetch fails, or returns rules; "D3" is a
\* destination that only the store holds, "D9" one that nothing defines, "x"
\* a prefix of no rating profile, "bad" a time that does not parse, and the
\* last rule has no destination
LoadLCRs ==
    /\ rdLoads < MaxRdLoads
    /\ rdLoads' = rdLoads + 1
    /\ \/ /\ rdErr' = ErrIO
          /\ dbQueries' = <<>>
          /\ rdLast' = ReaderOp("LoadLCRs")
          /\ UNCHANGED lcrs
       \/ \E failAt \in 0..MaxRdRows :
          \E tps \in SeqsUpTo(
                 {[tag |-> r[1], RpCategory |-> r[2], DestinationId |-> r[3],
                   ActivationTime |-> r[4]] :
                     r \in {<<"lcr1", "k", "D1", "2016-01-01">>,
                            <<"lcr1", "k", "D3", "bad">>,
                            <<"lcr2", "k", "D9", "2016-01-01">>,
                            <<"lcr2", "x", ANY, "2016-01-01">>,
                            <<"lcr1", "k", "", "2016-01-01">>}},
                 MaxRdRows) :
             LET r == LoadLcrRules(
                          [lcrs |-> lcrs, err |-> ErrNil, q |-> <<>>], tps,
                          [ratingProfiles |-> DOMAIN ratingProfiles,
                           destinations |-> DOMAIN destinations,
                           db |-> dataStorage, dbKeys |-> dbKeys,
                           failAt |-> failAt])
             IN /\ lcrs' = r.lcrs
                /\ rdErr' = r.err
                /\ dbQueries' = r.q
                /\ rdLast' = [ReaderOp("LoadLCRs") EXCEPT !.rows = tps]
    /\ UNCHANGED <<timings, destinationRates, actionsTriggers, ratingProfiles,
                   aliases, revAliases>>
    /\ UNCHANGED notLoadStep
    /\ UNCHANGED notReader

\* the loop of LoadAliases over the values vs of the alias key, which
\* tpr.aliases holds by now: the value goes to the alias value of its
\* destination, made when there is none, as the alias of its target and
\* original, and the key of the alias with the destination is appended to
\* the reverse entry of alias, target and context
RECURSIVE LoadAliasValues(_, _, _)
LoadAliasValues(st, key, vs) ==
    IF vs = <<>> THEN st
    ELSE LET v == Head(vs)
             al == st.aliases[key]
             at == {i \in 1..Len(al.Values) :
                       al.Values[i].DestinationId = v.DestinationId}
             vals == IF at = {}
                       THEN Append(al.Values,
                                   [DestinationId |-> v.DestinationId,
                                    Pairs |-> EmptyMap])
                     ELSE al.Values
             i == CHOOSE n \in 1..Len(vals) :
                     /\ vals[n].DestinationId = v.DestinationId
                     /\ \A m \in 1..(n - 1) :
                           vals[m].DestinationId # v.DestinationId
             vals1 == [vals EXCEPT ![i].Pairs =
                          Put(@, <<v.Target, v.Original>>, v.Alias)]
             rvAlsKey == <<v.Alias, v.Target, al.Context>>
             old == IF rvAlsKey \in DOMAIN st.revAliases
                      THEN st.revAliases[rvAlsKey]
                    ELSE <<>>
         IN LoadAliasValues(
                [aliases |-> [st.aliases EXCEPT ![key].Values = vals1],
                 revAliases |-> Put(st.revAliases, rvAlsKey,
                                    Append(old, <<key, v.DestinationId>>))],
                key, Tail(vs))

\* LoadAliases: the source fetch fails, or returns the records of no alias
\* or of one; an alias the reader does not hold is made first
LoadAliases ==
    /\ rdLoads < MaxRdLoads
    /\ rdLoads' = rdLoads + 1
    /\ \/ /\ rdErr' = ErrIO
          /\ UNCHANGED <<aliases, revAliases>>
       \/ /\ rdErr' = ErrNil
          /\ UNCHANGED <<aliases, revAliases>>
       \/ \E tal \in TpAliases :
             LET als == IF tal.key \in DOMAIN aliases THEN aliases
                        ELSE Put(aliases, tal.key,
                                 [Context |-> tal.Context, Values |-> <<>>])
                 r == LoadAliasValues([aliases |-> als,
                                       revAliases |-> revAliases],
                                      tal.key, tal.Values)
             IN /\ aliases' = r.aliases
                /\ revAliases' = r.revAliases
                /\ rdErr' = ErrNil
    /\ dbQueries' = <<>>
    /\ rdLast' = ReaderOp("LoadAliases")
    /\ UNCHANGED <<timings, destinationRates, actionsTriggers, ratingProfiles,
                   lcrs>>
    /\ UNCHANGED notLoadStep
    /\ UNCHANGED notReader

(***************************************************************************)
(* LoadCdrStatsFiltered and LoadCdrStats                                   *)
(***************************************************************************)
\* the cdr-stats rows a source can return: a stat without trigger, a stat
\* with the trigger "TR1" that the source holds (SrcActionTriggers), and a
\* stat with the trigger "TR9" that nothing defines
CdrStatRows ==
    {[tag |-> r[1], ActionTriggers |-> r[2]] :
        r \in {<<"CS1", "">>, <<"CS1", "TR1">>, <<"CS2", "TR9">>}}

\* MapTPCdrStats: the rows of each stat tag, in row order
MapTPCdrStats(tps) ==
    [tag \in {tps[i].tag : i \in 1..Len(tps)} |->
        SelectSeq(tps, LAMBDA r : r.tag = tag)]

\* the loop of LoadCdrStatsFiltered over the rows of one stat tag: a trigger
\* tag the reader does not hold is fetched from the source, the triggers of
\* the row are written to the store, whatever save says, and the stat is
\* put in the map; the stat, whose content UpdateCdrStats fills, is held as
\* "loaded"
RECURSIVE LoadCdrStatRows(_, _, _)
LoadCdrStatRows(st, tpStats, env) ==
    IF tpStats = <<>> \/ st.err # ErrNil THEN st
    ELSE LET tpStat == Head(tpStats)
             triggerTag == tpStat.ActionTriggers
             fetch == triggerTag # "" /\ triggerTag \notin DOMAIN st.atrs
             tpatrs == GetTPActionTriggers(triggerTag)
             atrs == IF fetch /\ tpatrs # <<>>
                       THEN Put(st.atrs, triggerTag,
                                [i \in 1..Len(tpatrs) |->
                                    [ID |-> triggerTag,
                                     ActionsID |-> tpatrs[i].ActionsId]])
                     ELSE st.atrs
             exists == triggerTag \in DOMAIN atrs
             triggers == IF exists THEN atrs[triggerTag] ELSE <<>>
             ids == st.actionIDs
                    \cup {triggers[i].ActionsID : i \in 1..Len(triggers)}
             call == [Call("SetActionTriggers", triggerTag) EXCEPT
                         !.val = triggers]
             here == [st EXCEPT !.atrs = atrs, !.actionIDs = ids]
         IN IF fetch /\ env.fails = "triggers"
              THEN [st EXCEPT !.err = Err("io error (ActionTriggers)",
                                          triggerTag)]
            ELSE IF triggerTag # "" /\ ~exists
              THEN [st EXCEPT !.err =
                       Err("could not get action triggers for cdr stats id",
                           triggerTag)]
            ELSE IF env.db = "nil"
              THEN [here EXCEPT !.err = Panic("nil store")]
            ELSE IF env.failAt = Len(st.log) + 1
              THEN [here EXCEPT
                       !.log = Append(@, [call |-> call, ok |-> FALSE]),
                       !.err = Err("store error (SetActionTriggers)",
                                   triggerTag)]
            ELSE LoadCdrStatRows(
                     [here EXCEPT
                         !.log = Append(@, [call |-> call, ok |-> TRUE]),
                         !.stats = Put(@, tpStat.tag, "loaded")],
                     Tail(tpStats), env)

\* the loop over the stat tags, in the order ids
RECURSIVE LoadCdrStatTags(_, _, _, _)
LoadCdrStatTags(st, ids, storStats, env) ==
    IF ids = <<>> \/ st.err # ErrNil THEN st
    ELSE LoadCdrStatTags(LoadCdrStatRows(st, storStats[Head(ids)], env),
                         Tail(ids), storStats, env)

\* the actions of the collected ids that the reader does not hold are
\* fetched from the source
LoadCdrStatActions(st, env) ==
    IF st.err # ErrNil \/ st.actionIDs \subseteq st.actions THEN st
    ELSE IF env.fails = "actions" THEN [st EXCEPT !.err = ErrIO]
    ELSE [st EXCEPT !.actions = @ \cup (st.actionIDs \cap SrcActions)]

\* the writes under save, in the order calls: the first write without store
\* panics, a failed write ends the call with its error
RECURSIVE SaveCdrStats(_, _, _)
SaveCdrStats(st, calls, env) ==
    IF calls = <<>> \/ st.err # ErrNil THEN st
    ELSE IF env.db = "nil" THEN [st EXCEPT !.err = Panic("nil store")]
    ELSE IF env.failAt = Len(st.log) + 1
      THEN [st EXCEPT !.log = Append(@, [call |-> Head(calls), ok |-> FALSE]),
                      !.err = Err("store error", Head(calls).op)]
    ELSE SaveCdrStats([st EXCEPT !.log = Append(@, [call |-> Head(calls),
                                                    ok |-> TRUE])],
                      Tail(calls), env)

\* LoadCdrStatsFiltered(tag, save), which LoadCdrStats calls with the tag ""
\* and save = FALSE: the fetch of the stats fails, or the rows are loaded
\* tag by tag, the actions of their triggers are loaded and, with save,
\* every action and every stat of the reader is written; failAt is the
\* store call that fails, 0 for none
LoadCdrStatsFilteredCall ==
    /\ opPc \in {"idle", "done"}
    /\ opCalls < MaxOpCalls
    /\ opCalls' = opCalls + 1
    /\ opPc' = "done"
    /\ opAgenda' = <<>>
    /\ \E save \in BOOLEAN, fails \in {"", "stats", "triggers", "actions"},
          failAt \in 0..MaxRdRows + 1 :
       \E tps \in IF fails = "stats" THEN {<<>>}
                  ELSE SeqsUpTo(CdrStatRows, MaxRdRows) :
          LET storStats == MapTPCdrStats(tps)
              env == [db |-> dataStorage, fails |-> fails, failAt |-> failAt]
              st0 == [atrs |-> actionsTriggers, stats |-> cdrStats,
                      actions |-> actions, actionIDs |-> {}, log |-> <<>>,
                      err |-> IF fails = "stats" THEN ErrIO ELSE ErrNil]
          IN \E ids \in Orders(DOMAIN storStats) :
                LET loaded == LoadCdrStatActions(
                                  LoadCdrStatTags(st0, ids, storStats, env),
                                  env)
                IN \E as \in Orders(loaded.actions),
                      stats \in Orders(DOMAIN loaded.stats) :
                      LET calls == IF save
                                     THEN [i \in 1..Len(as) |->
                                              Call("SetActions", as[i])]
                                          \o [i \in 1..Len(stats) |->
                                                 Call("SetCdrStats", stats[i])]
                                   ELSE <<>>
                          r == SaveCdrStats(loaded, calls, env)
                      IN /\ opIn' = <<"LoadCdrStatsFiltered",
                                      [tag |-> "", save |-> save,
                                       rows |-> tps]>>
                         /\ actionsTriggers' = r.atrs
                         /\ actions' = r.actions
                         /\ cdrStats' = r.stats
                         /\ dbLog' = r.log
                         /\ opRet' = r.err
    /\ UNCHANGED dbActionPlans
    /\ UNCHANGED <<laVars, rpVars, dstVars, dbVars, rdVars, actionPlans,
                   accountActions, acntActionPlans, apErr, accErr, apLoads,
                   accLoads, accLast, ratingProfiles, sharedGroups, lcrs,
                   derivedChargers, users, aliases, resLimits>>

(***************************************************************************)
(* LoadAll                                                                 *)
(***************************************************************************)
LoadAllOrderSwapped ==
    << "LoadDestinations", "LoadTimings", "LoadRates", "LoadDestinationRates",
       "LoadRatingPlans", "LoadRatingProfiles", "LoadSharedGroups", "LoadLCRs",
       "LoadActionPlans", "LoadActions", "LoadActionTriggers",
       "LoadAccountActions", "LoadDerivedChargers", "LoadCdrStats",
       "LoadUsers", "LoadAliases", "LoadResourceLimits" >>

\* the load steps in the order of the if-statements of LoadAll
LoadAllOrder ==
    << "LoadDestinations", "LoadTimings", "LoadRates", "LoadDestinationRates",
       "LoadRatingPlans", "LoadRatingProfiles", "LoadSharedGroups", "LoadLCRs",
       "LoadActions", "LoadActionPlans", "LoadActionTriggers",
       "LoadAccountActions", "LoadDerivedChargers", "LoadCdrStats",
       "LoadUsers", "LoadAliases", "LoadResourceLimits" >>

Done == Len(LoadAllOrder) + 1

HaltsOnAnyError(e) == e # Nil

\* the condition of every if-statement of LoadAll:
\*   err != nil && err.Error() != utils.NotFoundCaps
Halts(e) == e # Nil /\ e # NotFoundCaps

\* LoadAll is entered (again): nothing has been invoked yet
LoadAllCall ==
    /\ laPc \in {0, Done}
    /\ laPc' = 1
    /\ laInCall' = FALSE
    /\ laLog' = <<>>
    /\ laOut' = <<>>
    /\ laRet' = "none"
    /\ UNCHANGED notLoadAll

\* LoadAll invokes the step it is at
LoadAllInvoke ==
    /\ laPc \in 1..Len(LoadAllOrder)
    /\ ~laInCall
    /\ laInCall' = TRUE
    /\ laLog' = Append(laLog, LoadAllOrder[laPc])
    /\ UNCHANGED <<laPc, laOut, laRet>>
    /\ UNCHANGED notLoadAll

\* the invoked step returns e; LoadAll returns e, moves on, or returns nil
\* after the last step
LoadAllStepReturn ==
    /\ laPc \in 1..Len(LoadAllOrder)
    /\ laInCall
    /\ \E e \in StepErrors :
        /\ laOut' = Append(laOut, e)
        /\ laInCall' = FALSE
        /\ IF Halts(e)
             THEN laPc' = Done /\ laRet' = e
             ELSE /\ laPc' = laPc + 1
                  /\ laRet' = IF laPc = Len(LoadAllOrder) THEN Nil ELSE "none"
    /\ UNCHANGED laLog
    /\ UNCHANGED notLoadAll

(***************************************************************************)
(* Specifications                                                          *)
(***************************************************************************)
InitLoadAll ==
    /\ LoadAllIdle
    /\ RPIdle
    /\ DestIdle
    /\ DbIdle
    /\ AccIdle
    /\ KindIdle
    /\ dbActionPlans = EmptyMap
    /\ OpIdle
    /\ RdIdle

NextLoadAll ==
    \/ LoadAllCall
    \/ LoadAllInvoke
    \/ LoadAllStepReturn

SpecLoadAll == InitLoadAll /\ [][NextLoadAll]_vars

\* a reader after LoadTimings and LoadDestinationRates
InitRP ==
    /\ timings = LoadedTimings
    /\ destinationRates = SrcDestinationRates
    /\ ratingPlans = EmptyMap
    /\ rpErr = ErrNil
    /\ lastAdd = NoAdd
    /\ LoadAllIdle
    /\ DestIdle
    /\ DbIdle
    /\ AccIdle
    /\ KindIdle
    /\ dbActionPlans = EmptyMap
    /\ OpIdle
    /\ RdIdle

NextRP ==
    \/ LoadRatingPlans
    \/ AddRateIntervalCall

SpecRP == InitRP /\ [][NextRP]_vars

InitDest ==
    /\ DestIdle
    /\ LoadAllIdle
    /\ RPIdle
    /\ DbIdle
    /\ AccIdle
    /\ KindIdle
    /\ dbActionPlans = EmptyMap
    /\ OpIdle
    /\ RdIdle

NextDest == LoadDestinations

SpecDest == InitDest /\ [][NextDest]_vars

\* a reader, with or without store, after LoadTimings, LoadActions and
\* LoadActionTriggers
\* the action-plan rows the reader of SpecAcc was loaded from
AccPlanRows ==
    << [Id |-> "AP1", ActionsId |-> "A1", TimingId |-> ASAP, Weight |-> 10],
       [Id |-> "AP1", ActionsId |-> "A2", TimingId |-> "T1", Weight |-> 10],
       [Id |-> "AP2", ActionsId |-> "A1", TimingId |-> ASAP, Weight |-> 10] >>

\* a reader, with or without store, after LoadTimings, LoadActions and
\* LoadActionTriggers, and after a LoadActionPlans that found no row or the
\* rows of AccPlanRows
InitAcc ==
    /\ dataStorage \in {"nil", "db"}
    /\ dbKeys = IF dataStorage = "db" THEN {<<ACTION_PREFIX, "A3">>} ELSE {}
    /\ timings = LoadedTimings
    /\ destinationRates = EmptyMap
    /\ ratingPlans = EmptyMap
    /\ rpErr = ErrNil
    /\ lastAdd = NoAdd
    /\ actions = {"A1", "A2"}
    /\ actionsTriggers = LoadedTriggers
    /\ \E tps \in {<<>>, AccPlanRows} :
          LET storAps == MapTPActionTimings(tps) IN
          \E ids \in Orders(DOMAIN storAps) :
              actionPlans =
                  LoadActionPlanIds(
                      [aps |-> EmptyMap, err |-> ErrNil, n |-> 0, q |-> <<>>],
                      ids, storAps,
                      [actions |-> actions, timings |-> timings,
                       db |-> dataStorage, dbKeys |-> dbKeys,
                       failAt |-> 0]).aps
    /\ accountActions = EmptyMap
    /\ acntActionPlans = EmptyMap
    /\ apErr = ErrNil
    /\ accErr = ErrNil
    /\ apLoads = 0
    /\ accLoads = 0
    /\ accLast = NoAccLoad
    /\ LoadAllIdle
    /\ DestIdle
    /\ KindIdle
    /\ dbActionPlans = EmptyMap
    /\ OpIdle
    /\ RdIdle

NextAcc == LoadAccountActions

SpecAcc == InitAcc /\ [][NextAcc]_vars

\* the rows the reader of SpecWrite was loaded from
WriteApRows ==
    {r \in ApRows : r.ActionsId \in {"A1", "A2", "A3"} /\ r.TimingId # "T9"}

WriteAccRows == {r \in AccRows : r.key = "acc1" \/ r.ActionPlanId = "AP1"}

\* a reader, with or without store, after LoadDestinations, LoadTimings,
\* LoadActions, LoadActionPlans, LoadActionTriggers and LoadAccountActions
\* and with one entity, or none, of the other kinds
InitWrite ==
    /\ dataStorage \in {"nil", "db"}
    /\ dbKeys = IF dataStorage = "db" THEN {<<ACTION_PREFIX, "A3">>} ELSE {}
    /\ timings = LoadedTimings
    /\ destinationRates = EmptyMap
    /\ rpErr = ErrNil
    /\ lastAdd = NoAdd
    /\ actions = {"A1", "A2"}
    /\ actionsTriggers = LoadedTriggers
    /\ apErr = ErrNil
    /\ accErr = ErrNil
    /\ apLoads = 1
    /\ accLoads = 1
    /\ accLast = NoAccLoad
    /\ dstErr = ErrNil
    /\ dstLoads = 1
    /\ \E full \in BOOLEAN :
          LET d == LoadDestinationRows(EmptyMap, EmptyMap,
                      IF full THEN << [ID |-> "D1", Prefixes |-> <<"p1">>],
                                      [ID |-> "D2", Prefixes |-> <<"p2">>] >>
                      ELSE <<>>)
              one == IF full THEN [k \in {"k1"} |-> "loaded"] ELSE EmptyMap
          IN /\ destinations = d.destinations
             /\ revDests = d.revDests
             /\ ratingPlans = [k \in DOMAIN one |-> EmptyMap]
             /\ ratingProfiles = one
             /\ sharedGroups = one
             /\ lcrs = one
             /\ derivedChargers = one
             /\ cdrStats = one
             /\ users = one
             /\ aliases = one
    /\ resLimits \in {EmptyMap, [k \in {"RL1"} |-> "ok"],
                      [k \in {"RL1"} |-> "parse error"]}
    /\ \E apTps \in SeqsUpTo(WriteApRows, MaxApRows),
          accTps \in SeqsUpTo(WriteAccRows, MaxAccRows) :
          LET storAps == MapTPActionTimings(apTps) IN
          \E ids \in Orders(DOMAIN storAps) :
              LET r1 == LoadActionPlanIds(
                            [aps |-> EmptyMap, err |-> ErrNil, n |-> 0, q |-> <<>>],
                            ids, storAps,
                            [actions |-> actions, timings |-> timings,
                             db |-> dataStorage, dbKeys |-> dbKeys,
                             failAt |-> 0])
                  storAts == MapTPAccountActions(accTps)
                  r2 == LoadAccountRows(
                            [accts |-> EmptyMap, aps |-> r1.aps,
                             aap |-> EmptyMap, err |-> ErrNil],
                            storAts.rows, DOMAIN actionsTriggers)
              IN /\ actionPlans = r2.aps
                 /\ accountActions = r2.accts
                 /\ acntActionPlans = r2.aap
    /\ LoadAllIdle
    /\ OpIdle
    /\ RdIdle
    /\ dbActionPlans = EmptyMap

NextWrite ==
    \/ WriteToDatabaseCall
    \/ WriteStep

SpecWrite == InitWrite /\ [][NextWrite]_vars

\* a reader as NewTpReader or Init left it, with or without store; the
\* store holds no action plan, or the plan AP1 with one or no account
InitAAF ==
    /\ dataStorage \in {"nil", "db"}
    /\ dbKeys = {}
    /\ timings \in {NewTpReaderTimings, EmptyMap}
    /\ destinationRates = EmptyMap
    /\ ratingPlans = EmptyMap
    /\ rpErr = ErrNil
    /\ lastAdd = NoAdd
    /\ AccIdle
    /\ DestIdle
    /\ KindIdle
    /\ LoadAllIdle
    /\ OpIdle
    /\ RdIdle
    /\ \E ids \in {{}, {"acc0"}} :
          dbActionPlans \in
              {EmptyMap,
               [k \in {"AP1"} |-> [Id |-> k, ActionTimings |-> <<>>,
                                   AccountIDs |-> ids]]}

NextAAF ==
    \/ LoadAccountActionsFilteredCall
    \/ LoadAccountActionsFilteredStep

SpecAAF == InitAAF /\ [][NextAAF]_vars

\* a reader as NewTpReader left it, with or without store; the store holds
\* the destination "D9" or no destination
InitRPF ==
    /\ dataStorage \in {"nil", "db"}
    /\ dbKeys \in IF dataStorage = "db"
                    THEN {{}, {<<DESTINATION_PREFIX, "D9">>}}
                    ELSE {{}}
    /\ RPIdle
    /\ AccIdle
    /\ DestIdle
    /\ KindIdle
    /\ LoadAllIdle
    /\ OpIdle
    /\ RdIdle
    /\ dbActionPlans = EmptyMap

NextRPF ==
    \/ LoadRatingPlansFilteredCall
    \/ LoadRatingPlansFilteredStep

SpecRPF == InitRPF /\ [][NextRPF]_vars

\* a reader with or without store: one that NewTpReader just made, or one
\* that loaded timings, rates, destinations, two rating plans, actions, an
\* action plan bound to one account and one entity of each other kind; the
\* store holds the action "A3", the destination "D3", the rating plan "RP3"
\* and the rating profile "k3"
InitReader ==
    /\ dataStorage \in {"nil", "db"}
    /\ dbKeys = IF dataStorage = "db"
                  THEN {<<ACTION_PREFIX, "A3">>, <<DESTINATION_PREFIX, "D3">>,
                        <<RATING_PLAN_PREFIX, "RP3">>, <<"rpf_", "k3">>}
                ELSE {}
    /\ \E full \in BOOLEAN :
          LET d == LoadDestinationRows(EmptyMap, EmptyMap,
                      IF full THEN << [ID |-> "D1", Prefixes |-> <<"p1">>] >>
                      ELSE <<>>)
              one == IF full THEN [k \in {"k1"} |-> "loaded"] ELSE EmptyMap
              als == IF full
                       THEN LoadAliasValues(
                                [aliases |-> [k \in {"al1"} |->
                                                 [Context |-> "*rating",
                                                  Values |-> <<>>]],
                                 revAliases |-> EmptyMap],
                                "al1",
                                (CHOOSE tal \in TpAliases :
                                    Len(tal.Values) = 1).Values)
                     ELSE [aliases |-> EmptyMap, revAliases |-> EmptyMap]
              aps == LoadActionPlanIds(
                         [aps |-> EmptyMap, err |-> ErrNil, n |-> 0, q |-> <<>>],
                         IF full THEN <<"AP1">> ELSE <<>>,
                         MapTPActionTimings(<<
                             [Id |-> "AP1", ActionsId |-> "A1",
                              TimingId |-> ASAP, Weight |-> 10] >>),
                         [actions |-> {"A1"}, timings |-> LoadedTimings,
                          db |-> "nil", dbKeys |-> {}, failAt |-> 0])
              acc == LoadAccountRows(
                         [accts |-> EmptyMap, aps |-> aps.aps,
                          aap |-> EmptyMap, err |-> ErrNil],
                         IF full
                           THEN MapTPAccountActions(<<
                                    [key |-> "acc1", ActionPlanId |-> "AP1",
                                     ActionTriggersId |-> "",
                                     AllowNegative |-> FALSE,
                                     Disabled |-> FALSE] >>).rows
                         ELSE <<>>,
                         {})
          IN /\ timings = IF full THEN LoadedTimings ELSE NewTpReaderTimings
             /\ rates = IF full THEN SrcRateMap ELSE EmptyMap
             /\ destinations = d.destinations
             /\ revDests = d.revDests
             /\ ratingPlans = [k \in (IF full THEN {"RP1", "RP2"} ELSE {})
                                  |-> EmptyMap]
             /\ actions = IF full THEN {"A1", "A2"} ELSE {}
             /\ actionPlans = acc.aps
             /\ accountActions = acc.accts
             /\ acntActionPlans = acc.aap
             /\ sharedGroups = one
             /\ lcrs = one
             /\ derivedChargers = one
             /\ cdrStats = one
             /\ users = one
             /\ aliases = als.aliases
             /\ revAliases = als.revAliases
             /\ ratingProfiles =
                   [k \in DOMAIN one |->
                       [Id |-> k,
                        RatingPlanActivations |->
                            << [ActivationTime |-> "2015-01-01",
                                RatingPlanId |-> "RP1"] >>]]
             /\ resLimits = [k \in DOMAIN one |-> "ok"]
    /\ destinationRates = EmptyMap
    /\ actionsTriggers = EmptyMap
    /\ rpErr = ErrNil
    /\ lastAdd = NoAdd
    /\ dstErr = ErrNil
    /\ dstLoads = 0
    /\ apErr = ErrNil
    /\ accErr = ErrNil
    /\ apLoads = 0
    /\ accLoads = 0
    /\ accLast = NoAccLoad
    /\ rdErr = ErrNil
    /\ rdLoads = 0
    /\ dbQueries = <<>>
    /\ rdLast = NoOp
    /\ LoadAllIdle
    /\ OpIdle
    /\ dbActionPlans = EmptyMap

NextReader ==
    \/ TpReaderInit
    \/ LoadTimings
    \/ LoadDestinationRates
    \/ LoadRatingProfiles
    \/ LoadActionPlans
    \/ LoadActionTriggers

SpecReader == InitReader /\ [][NextReader]_vars

\* a reader as NewTpReader left it, with or without store
InitDF ==
    /\ dataStorage \in {"nil", "db"}
    /\ dbKeys = {}
    /\ RPIdle
    /\ AccIdle
    /\ DestIdle
    /\ KindIdle
    /\ LoadAllIdle
    /\ OpIdle
    /\ RdIdle
    /\ dbActionPlans = EmptyMap

NextDF ==
    \/ LoadDestinationsFilteredCall
    \/ LoadDestinationsFilteredStep

SpecDF == InitDF /\ [][NextDF]_vars

InitFetch ==
    /\ dataStorage \in {"nil", "db"}
    /\ dbKeys = {}
    /\ RPIdle
    /\ AccIdle
    /\ DestIdle
    /\ KindIdle
    /\ LoadAllIdle
    /\ OpIdle
    /\ RdIdle
    /\ dbActionPlans = EmptyMap

NextFetch ==
    \/ LoadAliasesFilteredCall
    \/ LoadUsersFilteredCall
    \/ LoadSharedGroupsFilteredCall
    \/ LoadCdrStatsFilteredCall
    \/ LoadFilteredStep

SpecFetch == InitFetch /\ [][NextFetch]_vars

\* load-all steps or load-filtered calls on the reader of InitReader; the
\* two kinds share no state, and a behaviour has steps of one kind only
NextLoaders ==
    \/ /\ opCalls = 0
       /\ \/ LoadRatingProfiles
          \/ LoadLCRs
          \/ GetLoadedIdsCall
          \/ IsValid
          \/ LoadAliases
    \/ /\ rdLoads = 0
       /\ LoadRatingProfilesFilteredCall
    \/ LoadFilteredStep


SpecLoaders == InitReader /\ [][NextLoaders]_vars

(***************************************************************************)
(* Claims on LoadAll                                                       *)
(***************************************************************************)
ClaimedOrder ==
    << "LoadDestinations", "LoadTimings", "LoadRates", "LoadDestinationRates",
       "LoadRatingPlans", "LoadRatingProfiles", "LoadSharedGroups", "LoadLCRs",
       "LoadActions", "LoadActionPlans", "LoadActionTriggers",
       "LoadAccountActions", "LoadDerivedChargers", "LoadCdrStats",
       "LoadUsers", "LoadAliases", "LoadResourceLimits" >>

FatalAt == {i \in 1..Len(laOut) : laOut[i] \notin {Nil, NotFoundCaps}}

\* C1: the steps LoadAll has invoked are always an initial part of the
\* claimed order Destinations, Timings, ..., ResourceLimits (no step is
\* skipped, repeated or out of place), a step is invoked only when every
\* step before it has returned, and a LoadAll that returns nil has invoked
\* all 17 steps.
C1_LoadAllOrder ==
    /\ IsPrefix(laLog, ClaimedOrder)
    /\ Len(laLog) = Len(laOut) + (IF laInCall THEN 1 ELSE 0)
    /\ (laRet = Nil => laLog = ClaimedOrder)

C1_Witness ==
    /\ laPc = Done
    /\ laRet = Nil
    /\ Len(laLog) = 17
    /\ Len(laOut) = 17

\* C2: once LoadAll has returned: if no step returned an error other than
\* nil or the not-found sentinel, every step was run and LoadAll returned
\* nil (also when some steps returned not-found); otherwise the first step
\* that returned another error is the last step run and its error is what
\* LoadAll returned.
C2_NotFoundContinuesOtherAborts ==
    laPc = Done =>
        IF FatalAt = {}
          THEN laLog = ClaimedOrder /\ laRet = Nil
          ELSE \E i \in FatalAt :
                  /\ \A j \in FatalAt : i <= j
                  /\ Len(laLog) = i
                  /\ laRet = laOut[i]

C2_Witness ==
    /\ laPc = Done
    /\ laRet \in OtherErrors
    /\ \E i \in 1..Len(laOut) : i < Len(laOut) /\ laOut[i] = NotFoundCaps
    /\ Len(laLog) < 17

(***************************************************************************)
(* Claims on the rate-interval merge                                       *)
(***************************************************************************)
AllBuckets ==
    {ratingPlans[tag][dId] : tag \in DOMAIN ratingPlans, dId \in {"D1", ANY}}

\* the bucket the last AddRateInterval call worked on, after the call
AddedBucket == Bucket(ratingPlans[lastAdd.tag], lastAdd.dId)

EqualIn(ris, x) == {k \in 1..Len(ris) : Equal(x, ris[k])}

\* C3: in every rating plan no bucket holds two intervals that are equal
\* (same timing, same weight), and a call of AddRateInterval whose intervals
\* are all equal to intervals of the bucket leaves the length of the bucket
\* as it was.
C3_NoEqualIntervals ==
    /\ \A tag \in DOMAIN ratingPlans : \A dId \in DOMAIN ratingPlans[tag] :
          LET ris == ratingPlans[tag][dId]
          IN \A j, k \in 1..Len(ris) : Equal(ris[j], ris[k]) => j = k
    /\ lastAdd.kind = "add" =>
          ((\A n \in 1..Len(lastAdd.is) :
                EqualIn(lastAdd.before, lastAdd.is[n]) # {})
            => Len(AddedBucket) = Len(lastAdd.before))

C3_Witness ==
    /\ lastAdd.kind = "add"
    /\ Len(lastAdd.is) = 2
    /\ Len(lastAdd.before) >= 2
    /\ \A n \in 1..2 : EqualIn(lastAdd.before, lastAdd.is[n]) # {}
    /\ Len(AddedBucket) = Len(lastAdd.before)

\* C4: after AddRateInterval, for every interval x that was added the
\* bucket holds exactly one interval equal to x; its rates are, as a set,
\* the rates the equal interval of the bucket had before together with the
\* rates of all added intervals equal to x, and no rate occurs twice in it;
\* adding an interval that the bucket already holds changes nothing.
C4_MergeIsUnion ==
    lastAdd.kind = "add" =>
        /\ \A n \in 1..Len(lastAdd.is) :
              LET x == lastAdd.is[n]
                  E == EqualIn(AddedBucket, x)
              IN /\ Cardinality(E) = 1
                 /\ \A k \in E :
                       /\ Range(AddedBucket[k].rates) =
                             UNION {Range(lastAdd.before[j].rates) :
                                       j \in EqualIn(lastAdd.before, x)}
                             \cup UNION {Range(lastAdd.is[m].rates) :
                                           m \in EqualIn(lastAdd.is, x)}
                       /\ NoDup(AddedBucket[k].rates)
        /\ (\A n \in 1..Len(lastAdd.is) :
                lastAdd.is[n] \in Range(lastAdd.before))
              => AddedBucket = lastAdd.before

C4_Witness ==
    /\ lastAdd.kind = "add"
    /\ Len(lastAdd.is) = 2
    /\ Equal(lastAdd.is[1], lastAdd.is[2])
    /\ lastAdd.is[1].rates # lastAdd.is[2].rates
    /\ EqualIn(lastAdd.before, lastAdd.is[1]) = {}
    /\ \E k \in 1..Len(AddedBucket) :
          /\ Equal(AddedBucket[k], lastAdd.is[1])
          /\ Len(AddedBucket[k].rates) = 2

(***************************************************************************)
(* Claims on the destinations                                              *)
(***************************************************************************)
\* every prefix of every loaded destination maps back to the destination
RevDestsComplete ==
    \A id \in DOMAIN destinations : \A p \in Range(destinations[id]) :
        p \in DOMAIN revDests /\ id \in Range(revDests[p])

\* every entry of the reverse index is a prefix of the destination held
RevDestsSound ==
    \A p \in DOMAIN revDests : \A id \in Range(revDests[p]) :
        id \in DOMAIN destinations /\ p \in Range(destinations[id])

\* C5: after LoadDestinations (one call or several), every prefix of every
\* loaded destination maps back to the id of the destination in revDests,
\* and revDests holds no (prefix, id) entry that is not a prefix of the
\* destination now held under that id.
C5_RevDestsExact == RevDestsComplete /\ RevDestsSound

(***************************************************************************)
(* Claims on LoadAccountActions                                            *)
(***************************************************************************)
AccLastKeys == {accLast.rows[i].key : i \in 1..Len(accLast.rows)}

AccLastKeysDistinct ==
    \A i, j \in 1..Len(accLast.rows) :
        accLast.rows[i].key = accLast.rows[j].key => i = j

DuplicateAccountErrors ==
    {"duplicate account action found", "non unique account actions id"}

\* every reference of the rows of the last call resolves
AccLastResolves ==
    \A i \in 1..Len(accLast.rows) :
        /\ accLast.rows[i].ActionTriggersId \in DOMAIN actionsTriggers \cup {""}
        /\ accLast.rows[i].ActionPlanId \in DOMAIN actionPlans \cup {""}

C7_AccountPlanIndex ==
    /\ (accLast.kind = "load" /\ accErr = ErrNil) =>
          \A i \in 1..Len(accLast.rows) :
              LET aa == accLast.rows[i] IN
              aa.ActionPlanId # "" =>
                  /\ aa.ActionPlanId \in DOMAIN actionPlans
                  /\ aa.key \in actionPlans[aa.ActionPlanId].AccountIDs
                  /\ aa.key \in DOMAIN acntActionPlans
                  /\ aa.ActionPlanId \in Range(acntActionPlans[aa.key])
    /\ \A a \in DOMAIN acntActionPlans : \A p \in Range(acntActionPlans[a]) :
          p \in DOMAIN actionPlans /\ a \in actionPlans[p].AccountIDs

C7_Witness ==
    /\ accLast.kind = "load"
    /\ accErr = ErrNil
    /\ Len(accLast.rows) = 2
    /\ \A i \in 1..2 : accLast.rows[i].ActionPlanId = "AP1"
    /\ actionPlans["AP1"].AccountIDs = {"acc1", "acc2"}
    /\ acntActionPlans["acc1"] = <<"AP1">>

(***************************************************************************)
(* Claims on WriteToDatabase                                               *)
(***************************************************************************)
\* the Tasks the running or last WriteToDatabase pushed for action timing
\* i of plan k, and the accounts they carry
TasksFor(k, i) ==
    {n \in 1..Len(dbLog) :
        /\ dbLog[n].ok
        /\ dbLog[n].call.op = "PushTask"
        /\ dbLog[n].call.key = k
        /\ dbLog[n].call.at = i}

PlanWritten(k) ==
    \E n \in 1..Len(dbLog) :
        dbLog[n].ok /\ dbLog[n].call.op = "SetActionPlan" /\ dbLog[n].call.key = k

\* C8: for every action plan WriteToDatabase has written, and every plan
\* in memory once it has returned nil: for each ASAP action timing the
\* Tasks pushed are one per bound account, each with the action id of the
\* timing, when accounts are bound, and a single Task with an empty account
\* id when none is bound; for the other timings no Task is pushed.
C8_TasksPerAccount ==
    \A k \in DOMAIN actionPlans :
        (PlanWritten(k) \/ (opPc = "done" /\ opRet = ErrNil)) =>
            /\ PlanWritten(k)
            /\ \A i \in 1..Len(actionPlans[k].ActionTimings) :
                  LET at == actionPlans[k].ActionTimings[i]
                      ids == actionPlans[k].AccountIDs
                      T == TasksFor(k, i)
                  IN /\ \A n \in T : dbLog[n].call.act = at.ActionsID
                     /\ IF ~IsASAP(at) THEN T = {}
                        ELSE IF ids = {}
                          THEN /\ Cardinality(T) = 1
                               /\ \A n \in T : dbLog[n].call.acc = ""
                        ELSE /\ Cardinality(T) = Cardinality(ids)
                             /\ {dbLog[n].call.acc : n \in T} = ids

C8_Witness ==
    /\ opPc = "done"
    /\ opRet = ErrNil
    /\ "AP1" \in DOMAIN actionPlans
    /\ "AP2" \in DOMAIN actionPlans
    /\ actionPlans["AP1"].AccountIDs = {"acc1", "acc2"}
    /\ actionPlans["AP2"].AccountIDs = {}
    /\ Cardinality(TasksFor("AP1", 1)) = 2
    /\ Cardinality(TasksFor("AP2", 1)) = 1

(***************************************************************************)
(* Claims on LoadAccountActionsFiltered                                    *)
(***************************************************************************)
\* the Tasks the running or last operation pushed for action timing i of
\* the plan bound to account id
BindingTasksFor(id, i) ==
    {n \in 1..Len(dbLog) :
        /\ dbLog[n].ok
        /\ dbLog[n].call.op = "PushTask"
        /\ dbLog[n].call.key = id
        /\ dbLog[n].call.at = i}

\* the accounts bound in the stored plan when the binding of account id
\* read it
StoredAccounts(id) ==
    UNION {dbLog[n].call.val.stored :
              n \in {m \in 1..Len(dbLog) :
                        /\ dbLog[m].call.op = "GetActionPlan"
                        /\ dbLog[m].call.acc = id}}

\* action timing row at is ASAP: its timing is the sentinel or a timing of
\* the source whose start time is the sentinel
RowIsASAP(at) ==
    \/ at.TimingId = ASAP
    \/ \E k \in 1..Len(GetTPTimings(at.TimingId)) :
          GetTPTimings(at.TimingId)[k].StartTime = ASAP

\* C9: for every binding LoadAccountActionsFiltered completed (the plan was
\* written for the account): each ASAP action timing of the plan has
\* exactly one pushed Task per account bound to the plan, which are the
\* account being loaded and the accounts bound in the stored plan, and the
\* other action timings have none.
C9_TaskPerBoundAccount ==
    \A n \in 1..Len(dbLog) :
        (dbLog[n].ok /\ dbLog[n].call.op = "SetActionPlan") =>
            LET id == dbLog[n].call.acc
                rows == GetTPActionPlans(dbLog[n].call.key)
                bound == StoredAccounts(id) \cup {id}
            IN \A i \in 1..Len(rows) :
                  LET T == BindingTasksFor(id, i) IN
                  IF RowIsASAP(rows[i])
                    THEN /\ Cardinality(T) = Cardinality(bound)
                         /\ {dbLog[k].call.acc : k \in T} = bound
                         /\ \A k \in T : dbLog[k].call.act = rows[i].ActionsId
                    ELSE T = {}

\* the accounts the read of the stored plan returned to the binding of
\* account id
ReturnedAccounts(id) ==
    UNION {dbLog[n].call.val.stored :
              n \in {m \in 1..Len(dbLog) :
                        /\ dbLog[m].call.op = "GetActionPlan"
                        /\ dbLog[m].call.acc = id
                        /\ dbLog[m].call.val.outcome = "found"}}

\* what holds of every completed binding (C9 with the accounts the read
\* returned in place of the accounts the stored plan has): each ASAP action
\* timing has exactly one pushed Task per account of the plan written, the
\* other action timings have none.
TaskPerReturnedAccount ==
    \A n \in 1..Len(dbLog) :
        (dbLog[n].ok /\ dbLog[n].call.op = "SetActionPlan") =>
            LET id == dbLog[n].call.acc
                rows == GetTPActionPlans(dbLog[n].call.key)
                bound == ReturnedAccounts(id) \cup {id}
            IN /\ dbLog[n].call.val.AccountIDs = bound
               /\ \A i \in 1..Len(rows) :
                     LET T == BindingTasksFor(id, i) IN
                     IF RowIsASAP(rows[i])
                       THEN /\ Cardinality(T) = Cardinality(bound)
                            /\ {dbLog[k].call.acc : k \in T} = bound
                            /\ \A k \in T : dbLog[k].call.act = rows[i].ActionsId
                       ELSE T = {}

\* a binding completed after the read of the stored plan failed: the
\* accounts of the stored plan got no Task and the plan written lost them
ReadFailedBinding ==
    \E n, m \in 1..Len(dbLog) :
        /\ dbLog[n].ok
        /\ dbLog[n].call.op = "SetActionPlan"
        /\ dbLog[m].call.op = "GetActionPlan"
        /\ dbLog[m].call.acc = dbLog[n].call.acc
        /\ dbLog[m].call.val.outcome = "error"
        /\ dbLog[m].call.val.stored # {}
        /\ ~(dbLog[m].call.val.stored \subseteq dbLog[n].call.val.AccountIDs)

(***************************************************************************)
(* Claims on LoadRatingPlansFiltered                                       *)
(***************************************************************************)
\* the DestinationRates ids of the bindings returned to the call that
\* the source does not hold
MissingDestinationRates ==
    {opIn[i].DestinationRatesId : i \in 1..Len(opIn)}
    \ {id \in {"DR1", "DR2", "DR3", "DR9"} : GetTPDestinationRates(id) # <<>>}

RatingPlanWritten ==
    \E n \in 1..Len(dbLog) : dbLog[n].ok /\ dbLog[n].call.op = "SetRatingPlan"

\* C10: a LoadRatingPlansFiltered that was given a binding whose
\* DestinationRates id the source does not hold returns an error, and when
\* it failed on that binding the error names the id and the call has
\* written no RatingPlan to the store.
C10_MissingDestinationRates ==
    (opPc = "done" /\ MissingDestinationRates # {}) =>
        /\ opRet # ErrNil
        /\ (/\ opRet.msg = "no DestinationRates profile with id"
            /\ opRet.arg \in MissingDestinationRates)
           => ~RatingPlanWritten

(***************************************************************************)
(* C11: when LoadActionTriggers returned no error, every action trigger    *)
(* the reader holds names an action that the actions map holds or, with a  *)
(* store attached, that the store holds.                                   *)
(***************************************************************************)
C11_TriggerActionsResolve ==
    (rdLast.op = "LoadActionTriggers" /\ rdErr = ErrNil)
    => \A k \in DOMAIN actionsTriggers :
          \A i \in 1..Len(actionsTriggers[k]) :
             \/ actionsTriggers[k][i].ActionsID \in actions
             \/ /\ dataStorage # "nil"
                /\ <<ACTION_PREFIX, actionsTriggers[k][i].ActionsID>> \in dbKeys

(***************************************************************************)
(* C12: a load-all step that resolves references (LoadDestinationRates,    *)
(* LoadRatingProfiles, LoadActionPlans) makes no query to the store.       *)
(***************************************************************************)
LoadAllResolvers ==
    {"LoadDestinationRates", "LoadRatingProfiles", "LoadActionPlans"}

InMemory(prefix) ==
    CASE prefix = DESTINATION_PREFIX -> DOMAIN destinations \cup {ANY}
      [] prefix = RATING_PLAN_PREFIX -> DOMAIN ratingPlans
      [] prefix = ACTION_PREFIX -> actions

C13_AsapAlwaysPresent ==
    /\ ASAP \in DOMAIN timings
    /\ timings[ASAP] = TPTiming(ASAP, "empty", "empty", ASAP)

(***************************************************************************)
(* C14: right after Init every entity map and every derived index of the   *)
(* reader is empty, whatever they held before: GetLoadedIds returns no id  *)
(* for any category and WriteToDatabase has no call to make to the store.  *)
(***************************************************************************)
C14_InitResetsEverything ==
    rdLast.op = "Init"
    => /\ \A c \in Categories : GetLoadedIds(c) = {}
       /\ timings = EmptyMap
       /\ rates = EmptyMap
       /\ destinationRates = EmptyMap
       /\ accountActions = EmptyMap
       /\ \A disable_reverse \in BOOLEAN :
             \A nc \in NextCalls(WriteAgenda(disable_reverse)) :
                nc.isRet /\ nc.ret = ErrNil

\* Init was called on a reader that held entities and both derived indices
C14_Witness ==
    /\ rdLast.op = "Init"
    /\ {DESTINATION_PREFIX, REVERSE_DESTINATION_PREFIX,
        AccountActionPlansPrefix, REVERSE_ALIASES_PREFIX} \subseteq rdLast.loaded

(***************************************************************************)
(* C15: a call of WriteToDatabase to the store that fails is the last call *)
(* it makes, and its error is what WriteToDatabase returns; without a      *)
(* store WriteToDatabase returns an error and makes no call.               *)
(***************************************************************************)
C15_FirstFailureAborts ==
    /\ \A i \in 1..Len(dbLog) :
          ~dbLog[i].ok
          => /\ i = Len(dbLog)
             /\ opPc = "done"
             /\ opRet = Err("store error", dbLog[i].call.op)
    /\ (dataStorage = "nil" /\ opPc = "done")
       => /\ opRet = Err("no database connection", "")
          /\ dbLog = <<>>
          /\ dbActionPlans = EmptyMap

\* a PushTask failed after a destination was written, with the action plan
\* of the Task and the later kinds still to be written
C15_Witness ==
    /\ opPc = "done"
    /\ Len(dbLog) > 1
    /\ dbLog[1].call.op = "SetDestination"
    /\ ~dbLog[Len(dbLog)].ok
    /\ dbLog[Len(dbLog)].call.op = "PushTask"
    /\ actions # {}
    /\ opRet # ErrNil

\* the calls op of the running or last operation for key k, as positions of
\* the log
CallsAt(op, k) ==
    {n \in 1..Len(dbLog) : dbLog[n].call.op = op /\ dbLog[n].call.key = k}

(***************************************************************************)
(* C16: when WriteToDatabase issues SetActionPlan for a plan, every        *)
(* destination of the reader was written before, and so was every Task of  *)
(* the ASAP action timings of that plan (one per bound account, or the one *)
(* without account); no destination and no Task of the plan follows.       *)
(***************************************************************************)
C16_DestinationsAndTasksFirst ==
    \A k \in DOMAIN actionPlans :
       \A n \in CallsAt("SetActionPlan", k) :
          /\ \A d \in DOMAIN destinations :
                /\ CallsAt("SetDestination", d) # {}
                /\ \A m \in CallsAt("SetDestination", d) : m < n /\ dbLog[m].ok
          /\ \A m \in CallsAt("PushTask", k) : m < n /\ dbLog[m].ok
          /\ \A i \in 1..Len(actionPlans[k].ActionTimings) :
                IsASAP(actionPlans[k].ActionTimings[i])
                => \A acc \in (IF actionPlans[k].AccountIDs = {} THEN {""}
                               ELSE actionPlans[k].AccountIDs) :
                      \E m \in CallsAt("PushTask", k) :
                         dbLog[m].call.at = i /\ dbLog[m].call.acc = acc

\* two destinations and the plan AP1, bound to two accounts, were written
C16_Witness ==
    /\ Cardinality(DOMAIN destinations) = 2
    /\ "AP1" \in DOMAIN actionPlans
    /\ actionPlans["AP1"].AccountIDs = {"acc1", "acc2"}
    /\ CallsAt("SetActionPlan", "AP1") # {}
    /\ Cardinality(CallsAt("PushTask", "AP1")) >= 2

\* the calls that rebuild a reverse index or index the resource limits
RebuildOps ==
    {"RebuildReverseForPrefix", "NewReqFilterIndexer", "IndexFilters",
     "StoreIndexes"}

\* the entity writes WriteToDatabase owes the store for what the reader holds
EntityWrites ==
    {<<"SetDestination", k>> : k \in DOMAIN destinations}
    \cup {<<"SetRatingPlan", k>> : k \in DOMAIN ratingPlans}
    \cup {<<"SetRatingProfile", k>> : k \in DOMAIN ratingProfiles}
    \cup {<<"SetActionPlan", k>> : k \in DOMAIN actionPlans}
    \cup {<<"SetActionTriggers", k>> : k \in DOMAIN actionsTriggers}
    \cup {<<"SetSharedGroup", k>> : k \in DOMAIN sharedGroups}
    \cup {<<"SetLCR", k>> : k \in DOMAIN lcrs}
    \cup {<<"SetActions", k>> : k \in actions}
    \cup {<<"SetAccount", k>> : k \in DOMAIN accountActions}
    \cup {<<"SetDerivedChargers", k>> : k \in DOMAIN derivedChargers}
    \cup {<<"SetCdrStats", k>> : k \in DOMAIN cdrStats}
    \cup {<<"SetUser", k>> : k \in DOMAIN users}
    \cup {<<"SetAlias", k>> : k \in DOMAIN aliases}
    \cup {<<"SetResourceLimit", k>> : k \in DOMAIN resLimits}

\* every rebuild and indexing call comes after every entity write, and with
\* disable_reverse none is made
RebuildsComeLast ==
    /\ \A n \in 1..Len(dbLog) :
          dbLog[n].call.op \in RebuildOps
          => /\ \A w \in EntityWrites :
                   \E m \in CallsAt(w[1], w[2]) : m < n /\ dbLog[m].ok
             /\ \A m \in 1..Len(dbLog) :
                   m > n => dbLog[m].call.op \in RebuildOps
    /\ opIn = << TRUE >>
       => \A n \in 1..Len(dbLog) : dbLog[n].call.op \notin RebuildOps

WriteSucceeded == opPc = "done" /\ opRet = ErrNil /\ opIn = << FALSE >>

(***************************************************************************)
(* C17: a WriteToDatabase that returns nil without disable_reverse has     *)
(* rebuilt the reverse-destination index, the account -> action-plan index *)
(* and the reverse-alias index and has indexed the resource limits, all of *)
(* it after every entity write; with disable_reverse no rebuild and no     *)
(* indexing call is made.                                                  *)
(***************************************************************************)
C17_AllIndicesRebuilt ==
    /\ RebuildsComeLast
    /\ WriteSucceeded
       => /\ \A p \in {REVERSE_DESTINATION_PREFIX, AccountActionPlansPrefix,
                       REVERSE_ALIASES_PREFIX} :
                CallsAt("RebuildReverseForPrefix", p) # {}
          /\ CallsAt("StoreIndexes", "") # {}

(***************************************************************************)
(* C17, as amended: a WriteToDatabase that returns nil without             *)
(* disable_reverse has rebuilt the reverse-destination index exactly when  *)
(* the reader holds a destination, the account -> action-plan index        *)
(* exactly when acntActionPlans is not empty, the reverse-alias index      *)
(* exactly when the reader holds an alias, and has indexed the resource    *)
(* limits exactly when it holds one; all of it after every entity write;   *)
(* with disable_reverse no rebuild and no indexing call is made.           *)
(***************************************************************************)
C17_RebuildsWhatIsLoaded ==
    /\ RebuildsComeLast
    /\ WriteSucceeded
       => /\ CallsAt("RebuildReverseForPrefix", REVERSE_DESTINATION_PREFIX) # {}
                <=> destinations # EmptyMap
          /\ CallsAt("RebuildReverseForPrefix", AccountActionPlansPrefix) # {}
                <=> acntActionPlans # EmptyMap
          /\ CallsAt("RebuildReverseForPrefix", REVERSE_ALIASES_PREFIX) # {}
                <=> aliases # EmptyMap
          /\ \A op \in {"NewReqFilterIndexer", "StoreIndexes"} :
                CallsAt(op, "") # {} <=> resLimits # EmptyMap
          /\ \A k \in DOMAIN resLimits : CallsAt("IndexFilters", k) # {}

\* a write without disable_reverse returned nil on a reader that holds
\* destinations, aliases and a resource limit but no account -> action-plan
\* index
C17_Witness ==
    /\ WriteSucceeded
    /\ destinations # EmptyMap
    /\ aliases # EmptyMap
    /\ resLimits # EmptyMap
    /\ acntActionPlans = EmptyMap
    /\ actionPlans # EmptyMap
    /\ CallsAt("StoreIndexes", "") # {}

(***************************************************************************)
(* Claims on the destination writes                                        *)
(***************************************************************************)
DestinationWrites == {"SetDestination", "SetReverseDestination"}

\* the destination writes of the running or last operation that failed
FailedDestinationWrites ==
    {n \in 1..Len(dbLog) :
        dbLog[n].call.op \in DestinationWrites /\ ~dbLog[n].ok}

(***************************************************************************)
(* C18: every destination and reverse-destination write of a call of       *)
(* LoadDestinationsFiltered carries the one transaction id generated for   *)
(* that call, and a write that fails is followed at once by a rollback of  *)
(* that transaction id.                                                    *)
(***************************************************************************)
C18_OneTransactionPerCall ==
    \A n \in 1..Len(dbLog) :
       /\ dbLog[n].call.op \in DestinationWrites
          => /\ dbLog[n].call.trans = GenUUID(opCalls)
             /\ dbLog[n].call.trans # NonTransactional
       /\ n \in FailedDestinationWrites
          => /\ n < Len(dbLog)
             /\ dbLog[n + 1].call.op = "RollbackTransaction"
             /\ dbLog[n + 1].call.key = GenUUID(opCalls)
       /\ dbLog[n].call.op \in {"RollbackTransaction", "CommitTransaction"}
          => dbLog[n].call.key = GenUUID(opCalls)

\* a call with two rows made its four writes, of which one failed
C18_Witness ==
    /\ Len(opIn) = 2
    /\ Cardinality({n \in 1..Len(dbLog) :
                       dbLog[n].call.op \in DestinationWrites}) = 4
    /\ Cardinality(FailedDestinationWrites) = 1

(***************************************************************************)
(* C19: a call of LoadDestinationsFiltered in which a write failed makes   *)
(* no further destination write, does not commit the transaction and       *)
(* returns an error; the transaction is committed only when every write    *)
(* succeeded.                                                              *)
(***************************************************************************)
C19_AllOrNothing ==
    /\ \A n \in FailedDestinationWrites :
          \A m \in 1..Len(dbLog) :
             m > n => dbLog[m].call.op \notin DestinationWrites
                                               \cup {"CommitTransaction"}
    /\ (opPc = "done" /\ FailedDestinationWrites # {}) => opRet # ErrNil

\* the write op of destination d is in the store for a concurrent reader to
\* see: it succeeded outside a transaction, or its transaction was committed
Observable(op, d) ==
    \E n \in CallsAt(op, d) :
       /\ dbLog[n].ok
       /\ \/ dbLog[n].call.trans = NonTransactional
          \/ CallsAt("CommitTransaction", dbLog[n].call.trans) # {}

\* the reverse entries of destination d are in the store: written for d, or
\* rebuilt for the whole prefix
ReverseObservable(d) ==
    \/ Observable("SetReverseDestination", d)
    \/ \E n \in CallsAt("RebuildReverseForPrefix", REVERSE_DESTINATION_PREFIX) :
          dbLog[n].ok

(***************************************************************************)
(* C20: every destination write is made under a transaction id, and at no  *)
(* moment does the store show a destination without its reverse entries,   *)
(* or the converse.                                                        *)
(***************************************************************************)
C20_DestinationWritesInTransaction ==
    /\ \A n \in 1..Len(dbLog) :
          dbLog[n].call.op \in DestinationWrites
          => dbLog[n].call.trans # NonTransactional
    /\ \A d \in DOMAIN destinations :
          Observable("SetDestination", d) <=> ReverseObservable(d)
(***************************************************************************)
(* Claims on the error handling of the load operations                     *)
(***************************************************************************)
\* C21: a load-filtered call whose fetch from the source failed has made no
\* write to the store after the failed fetch (the fetch is the first thing
\* the call does)
C21_FailedFetchWritesNothing ==
    (opPc = "done" /\ opRet = ErrIO) => dbLog = <<>>
\* C22: a malformed time in a source row makes the load operation that reads
\* it return an error and nothing built from it is stored: after LoadLCRs no
\* LCR of the reader holds an activation at the zero time, which is what the
\* parse leaves for a time that does not parse
C22_MalformedTimeIsAnError ==
    rdLast.op = "LoadLCRs"
    => \A tag \in DOMAIN lcrs \ {"k1"} :
          \A i \in 1..Len(lcrs[tag]) :
             lcrs[tag][i].ActivationTime # "0001-01-01T00:00:00Z"
\* a row of the sequence rows whose activation time does not parse
BadActivations(rows) ==
    {rows[i].key : i \in {n \in 1..Len(rows) : rows[n].ActivationTime = "bad"}}

\* what the store was asked to write for the rating profile key
ProfileWrites(key) ==
    {n \in 1..Len(dbLog) : /\ dbLog[n].call.op = "SetRatingProfile"
                           /\ dbLog[n].call.key = key}

\* C23: a rating-plan activation whose time does not parse is a hard
\* failure. LoadRatingProfiles on rows with such an activation returns an
\* error and leaves the entry of that profile in ratingProfiles as it was;
\* LoadRatingProfilesFiltered on such rows never asks the store to write
\* that profile and returns an error.
C23_MalformedActivationFails ==
    [][/\ rdLoads' # rdLoads /\ rdLast'.op = "LoadRatingProfiles"
          => \A key \in BadActivations(rdLast'.rows) :
                /\ rdErr' # ErrNil
                /\ key \in DOMAIN ratingProfiles'
                   => /\ key \in DOMAIN ratingProfiles
                      /\ ratingProfiles'[key] = ratingProfiles[key]
       /\ opIn' # <<>> /\ opIn'[1] = "LoadRatingProfilesFiltered"
          => \A key \in BadActivations(opIn'[2]) :
                /\ ProfileWrites(key)' = {}
                /\ opPc' = "done" => opRet' # ErrNil]_vars

\* LoadRatingProfiles returned the parse error for a profile that the
\* reader held before
C23_Witness ==
    /\ rdLast.op = "LoadRatingProfiles"
    /\ rdErr.msg = "cannot parse activation time from"
    /\ BadActivations(rdLast.rows) \cap DOMAIN ratingProfiles # {}
\* C24: a multi-row load-all step has no partial success: a step that
\* returns an error leaves every in-memory map, index and bound-account set
\* of the reader as it was before the call
C24_NoPartialSuccess ==
    [][rdLoads' # rdLoads /\ rdErr' # ErrNil
       => UNCHANGED <<timings, destinationRates, ratingProfiles, lcrs,
                      actionPlans, actionsTriggers, acntActionPlans>>]_vars
(***************************************************************************)
(* Claims on GetLoadedIds and IsValid                                      *)
(***************************************************************************)
\* the tags the reader holds for each kind that GetLoadedIds supports
TagsOfKind ==
    [c \in Categories |->
        IF c = "dst_" THEN DOMAIN destinations
        ELSE IF c = REVERSE_DESTINATION_PREFIX THEN DOMAIN revDests
        ELSE IF c = "rpl_" THEN DOMAIN ratingPlans
        ELSE IF c = "rpf_" THEN DOMAIN ratingProfiles
        ELSE IF c = "act_" THEN actions
        ELSE IF c = "apl_" THEN DOMAIN actionPlans
        ELSE IF c = AccountActionPlansPrefix THEN DOMAIN acntActionPlans
        ELSE IF c = "dcs_" THEN DOMAIN derivedChargers
        ELSE IF c = "cst_" THEN DOMAIN cdrStats
        ELSE IF c = "shg_" THEN DOMAIN sharedGroups
        ELSE IF c = "usr_" THEN DOMAIN users
        ELSE IF c = "als_" THEN DOMAIN aliases
        ELSE IF c = REVERSE_ALIASES_PREFIX THEN DOMAIN revAliases
        ELSE IF c = "rlm_" THEN DOMAIN resLimits
        ELSE IF c = "atr_" THEN DOMAIN actionsTriggers
        ELSE DOMAIN lcrs]

\* C25: GetLoadedIds(kind) returns exactly the tags the map of that kind
\* holds, each once, and nil as error; for a kind it does not support it
\* returns an error and no id; in both cases it changes nothing of the reader
\* or the store
C25_GetLoadedIdsExact ==
    [][rdLast'.op = "GetLoadedIds" /\ rdLoads' # rdLoads
       => /\ \A c \in rdLast'.loaded :
                IF c \in Categories
                  THEN /\ rdErr' = ErrNil
                       /\ Range(rdLast'.rows) = TagsOfKind[c]
                       /\ NoDup(rdLast'.rows)
                ELSE /\ rdErr' # ErrNil
                     /\ rdLast'.rows = <<>>
          /\ UNCHANGED <<laVars, rpVars, dstVars, dbVars, accVars, kindVars,
                         opVars, dbActionPlans, rates, revAliases>>]_vars

\* GetLoadedIds returned the two actions of a loaded reader whose reverse
\* destinations and action triggers differ
C25_Witness ==
    /\ rdLast.op = "GetLoadedIds"
    /\ rdLast.loaded = {"act_"}
    /\ Len(rdLast.rows) = 2
    /\ DOMAIN revDests # DOMAIN actionsTriggers
\* the rating plan tag passes the three checks answered by checks
Sane(checks, tag) ==
    /\ checks[tag].isContinous
    /\ checks[tag].crazyRate = ""
    /\ checks[tag].crazyTiming = ""

\* C26: IsValid returns true iff every rating plan of the reader is
\* continuous and has no unsane rate and no unsane timing; every violation
\* of every plan is logged, whatever was found before it, and none is an
\* error; IsValid changes no map of the reader and makes no store call
C26_IsValidAggregates ==
    [][rdLast'.op = "IsValid" /\ rdLoads' # rdLoads
       => LET c == rdLast'.checks
              log == Range(rdLast'.rows)
          IN /\ DOMAIN c = DOMAIN ratingPlans
             /\ rdLast'.valid <=> \A tag \in DOMAIN ratingPlans : Sane(c, tag)
             /\ \A tag \in DOMAIN ratingPlans :
                   /\ ~c[tag].isContinous
                      <=> <<tag, "is not covering all weekdays">> \in log
                   /\ c[tag].crazyRate # ""
                      => <<c[tag].crazyRate, "rate is invalid">> \in log
                   /\ c[tag].crazyTiming # ""
                      => <<c[tag].crazyTiming, "timing is invalid">> \in log
             /\ rdErr' = ErrNil
             /\ dbQueries' = <<>>
             /\ UNCHANGED <<laVars, rpVars, dstVars, dbVars, accVars,
                            kindVars, opVars, dbActionPlans, rates,
                            revAliases>>]_vars

\* IsValid returned false for two rating plans that both fail a check
C26_Witness ==
    /\ rdLast.op = "IsValid"
    /\ ~rdLast.valid
    /\ Cardinality(DOMAIN ratingPlans) = 2
    /\ \A tag \in DOMAIN ratingPlans : ~Sane(rdLast.checks, tag)
    /\ Len(rdLast.rows) >= 2
(***************************************************************************)
(* Claims on what WriteToDatabase leaves in the store                      *)
(***************************************************************************)
\* the writes of op for key that succeeded
Writes(op, key) ==
    {n \in 1..Len(dbLog) : /\ dbLog[n].call.op = op
                           /\ dbLog[n].call.key = key
                           /\ dbLog[n].ok}

\* the store as a key-value map: the value of the last write of op for key
ReadBack(op, key) ==
    dbLog[CHOOSE n \in Writes(op, key) :
             \A m \in Writes(op, key) : m <= n].call.val

\* every entity of the map m reads back from the store as the reader holds it
RoundTrip(op, m) ==
    \A k \in DOMAIN m : /\ Writes(op, k) # {}
                         /\ ReadBack(op, k) = m[k]

\* the kinds that WriteToDatabase writes as the reader holds them
WrittenAsHeld ==
    /\ RoundTrip("SetDestination", destinations)
    /\ RoundTrip("SetRatingPlan", ratingPlans)
    /\ RoundTrip("SetRatingProfile", ratingProfiles)
    /\ RoundTrip("SetActionPlan", actionPlans)
    /\ RoundTrip("SetActionTriggers", actionsTriggers)
    /\ RoundTrip("SetSharedGroup", sharedGroups)
    /\ RoundTrip("SetLCR", lcrs)
    /\ RoundTrip("SetActions", [k \in actions |-> k])
    /\ RoundTrip("SetAccount", accountActions)
    /\ RoundTrip("SetDerivedChargers", derivedChargers)
    /\ RoundTrip("SetCdrStats", cdrStats)
    /\ RoundTrip("SetUser", users)
    /\ RoundTrip("SetAlias", aliases)

DerivedRevAliases ==
    UNION {UNION {{<< <<aliases[key].Values[i].Pairs[p], p[1],
                        aliases[key].Context>>,
                      <<key, aliases[key].Values[i].DestinationId>> >> :
                      p \in DOMAIN aliases[key].Values[i].Pairs} :
                     i \in 1..Len(aliases[key].Values)} :
              key \in DOMAIN aliases}

\* C28: after LoadAliases the reverse entry of every alias value (alias,
\* target) of a loaded Alias with context c and destination d holds the key
\* made of the Alias id and d; revAliases holds nothing that the aliases
\* map does not give rise to, and nothing twice
C28_RevAliasesMatchAliases ==
    rdLast.op = "LoadAliases"
    => /\ \A e \in DerivedRevAliases :
             /\ e[1] \in DOMAIN revAliases
             /\ e[2] \in Range(revAliases[e[1]])
       /\ \A k \in DOMAIN revAliases :
             /\ \A n \in 1..Len(revAliases[k]) :
                   <<k, revAliases[k][n]>> \in DerivedRevAliases
             /\ NoDup(revAliases[k])
(***************************************************************************)
(* Claims on what a load-filtered call fetches and saves                   *)
(***************************************************************************)
\* C29: LoadSharedGroupsFiltered(tag, save) asks the source only for the
\* shared groups with that tag, and the shared groups it writes to the store
\* are of that tag and loaded by the call
C29_FetchesOnlyTheTag ==
    opIn # <<>> /\ opIn[1] = "LoadSharedGroupsFiltered"
    => /\ opIn[2].asked = opIn[2].tag
       /\ \A n \in 1..Len(dbLog) :
             dbLog[n].call.op = "SetSharedGroup"
             => /\ dbLog[n].call.key = opIn[2].tag
                /\ dbLog[n].call.key \in
                      {opIn[2].rows[i].tag : i \in 1..Len(opIn[2].rows)}
(***************************************************************************)
(* Claims on LoadDestinationRates                                          *)
(***************************************************************************)
\* the destination id resolves: it is the sentinel, or the reader holds the
\* destination, or a store is attached and holds it
DestinationResolves(id) ==
    \/ id = ANY
    \/ id \in DOMAIN destinations
    \/ dataStorage # "nil" /\ <<DESTINATION_PREFIX, id>> \in dbKeys

\* the destination-rate entries of the reader, which are those of the last
\* call of LoadDestinationRates that fetched rows
DrEntries ==
    UNION {Range(destinationRates[tag]) : tag \in DOMAIN destinationRates}

\* every entry has its rate in the rates map and a destination that resolves
AllResolve ==
    \A dr \in DrEntries : /\ dr.RateId \in DOMAIN rates
                          /\ DestinationResolves(dr.DestinationId)

\* err names a tag of an entry that is missing
NamesMissingTag(err) ==
    \/ /\ err.msg = "could not find rate for tag"
       /\ err.arg \notin DOMAIN rates
       /\ \E dr \in DrEntries : dr.RateId = err.arg
    \/ /\ err.msg = "could not get destination for tag"
       /\ ~DestinationResolves(err.arg)
       /\ \E dr \in DrEntries : dr.DestinationId = err.arg

\* no lookup in the store for the sentinel
NoProbeForAny == \A i \in 1..Len(dbQueries) : dbQueries[i].key # ANY

UnresolvedDestinations ==
    {d \in UNION {{dr.DestinationId :
                     dr \in Range(GetTPDestinationRates(opIn[i].DestinationRatesId))} :
                  i \in 1..Len(opIn)} :
        /\ d # ANY
        /\ GetTPDestinations(d) = <<>>
        /\ dataStorage # "nil" => <<DESTINATION_PREFIX, d>> \notin dbKeys}

\* C31: a LoadRatingPlansFiltered whose bindings refer to a destination that
\* is not the sentinel and is absent from the source and from the attached
\* store returns an error, and when that error is 'could not get
\* destination' the call has written no RatingPlan to the store.
C31_MissingDestinationFails ==
    (opPc = "done" /\ UnresolvedDestinations # {}) =>
        /\ opRet # ErrNil
        /\ (/\ opRet.msg = "could not get destination for tag"
            /\ opRet.arg \in UnresolvedDestinations)
           => ~RatingPlanWritten

(***************************************************************************)
(* Claims on the rating plans a rating profile refers to                    *)
(***************************************************************************)
\* the rating plan id is in the ratingPlans map or, with a store attached,
\* in the store
RatingPlanResolves(id) ==
    \/ id \in DOMAIN ratingPlans
    \/ dataStorage # "nil" /\ <<RATING_PLAN_PREFIX, id>> \in dbKeys

\* every activation of the profile refers to a rating plan that resolves
ActivationsResolve(rpf) ==
    \A i \in 1..Len(rpf.RatingPlanActivations) :
        RatingPlanResolves(rpf.RatingPlanActivations[i].RatingPlanId)

\* the profiles LoadRatingProfiles put in the ratingProfiles map in this step
StoredProfiles ==
    {ratingProfiles'[k] : k \in {key \in DOMAIN ratingProfiles' :
        key \notin DOMAIN ratingProfiles
        \/ ratingProfiles'[key] # ratingProfiles[key]}}

\* the profiles the running LoadRatingProfilesFiltered has written
PersistedProfiles ==
    {dbLog[n].call.val : n \in {i \in 1..Len(dbLog) :
        dbLog[i].ok /\ dbLog[i].call.op = "SetRatingProfile"}}

\* the rating-plan ids of the rows of the call that do not resolve
UnresolvedRefs(refs) == {id \in refs : ~RatingPlanResolves(id)}

\* err names a rating plan of the rows that does not resolve
NamesUnresolvedPlan(err, refs) ==
    /\ err.msg = "could not load rating plans for tag"
    /\ err.arg \in UnresolvedRefs(refs)

\* the rating-plan ids of the rows given to LoadRatingProfilesFiltered
FilteredRefs == {opIn[2][i].RatingPlanId : i \in 1..Len(opIn[2])}

EndsBeforeLookup(err) ==
    \/ err = ErrIO
    \/ err.msg \in {"cannot parse activation time from",
                    "no RateProfile for filter, error", "store error",
                    "panic"}

StartsWithSearchKey(key, p) == p = "k" /\ key \in {"k1", "k2", "k3"}

\* a rating profile for the rule is in memory or in the attached store, and
\* the destination of the rule is empty, the sentinel, in memory or in the
\* attached store
LcrRuleResolves(rule) ==
    /\ \/ \E k \in DOMAIN ratingProfiles :
             StartsWithSearchKey(k, rule.RpCategory)
       \/ /\ dataStorage # "nil"
          /\ \E k \in dbKeys : /\ k[1] = "rpf_"
                               /\ StartsWithSearchKey(k[2], rule.RpCategory)
    /\ \/ rule.DestinationId \in {"", ANY}
       \/ rule.DestinationId \in DOMAIN destinations
       \/ /\ dataStorage # "nil"
          /\ <<DESTINATION_PREFIX, rule.DestinationId>> \in dbKeys

\* the entries of the rules of the LCR tag, in the order of the rules
RuleEntries(rules, tag) ==
    LET of == SelectSeq(rules, LAMBDA r : r.tag = tag)
    IN [i \in 1..Len(of) |-> [DestinationId |-> of[i].DestinationId,
                              RPCategory |-> of[i].RpCategory]]

\* a is b with some of its elements left out
IsSubSeq(a, b) ==
    \E f \in [1..Len(a) -> 1..Len(b)] :
        /\ \A i \in 1..Len(a) : a[i] = b[f[i]]
        /\ \A i, j \in 1..Len(a) : i < j => f[i] < f[j]

\* the number of entries of the activations acts
RECURSIVE EntryCount(_)
EntryCount(acts) ==
    IF acts = <<>> THEN 0
    ELSE Len(Head(acts).Entries) + EntryCount(Tail(acts))

\* the entries of the activation i of acts that old, the activations before
\* the call, does not have
AddedEntries(acts, old, i) ==
    SubSeq(acts[i].Entries,
           (IF i <= Len(old) THEN Len(old[i].Entries) ELSE 0) + 1,
           Len(acts[i].Entries))

\* C33: LoadLCRs stores a rule only if a rating profile for it and its
\* destination resolve, and returns an error when a rule of the source does
\* not; within one LCR no two activations have the same activation time,
\* the activations and entries held before the call stay where they are,
\* the entries added to an activation keep the order of the rules of the
\* source, and a call that returns no error has added an entry for every
\* rule
C33_LcrRulesResolveAndKeepOrder ==
    [][(rdLoads' = rdLoads + 1 /\ rdLast'.op = "LoadLCRs")
       => LET rules == rdLast'.rows
              tags == {rules[i].tag : i \in 1..Len(rules)}
          IN /\ (\E i \in 1..Len(rules) : ~LcrRuleResolves(rules[i]))
                => rdErr' # ErrNil
             /\ DOMAIN lcrs' = DOMAIN lcrs \cup {tag \in tags : tag \in DOMAIN lcrs'}
             /\ \A tag \in tags \cap DOMAIN lcrs' :
                   LET acts == lcrs'[tag]
                       old == IF tag \in DOMAIN lcrs THEN lcrs[tag] ELSE <<>>
                       resolved == SelectSeq(rules, LcrRuleResolves)
                       added == EntryCount(acts) - EntryCount(old)
                   IN /\ \A i, j \in 1..Len(acts) :
                            i # j => acts[i].ActivationTime # acts[j].ActivationTime
                      /\ Len(old) <= Len(acts)
                      /\ \A i \in 1..Len(old) :
                            /\ acts[i].ActivationTime = old[i].ActivationTime
                            /\ SubSeq(acts[i].Entries, 1, Len(old[i].Entries))
                                  = old[i].Entries
                      /\ \A i \in 1..Len(acts) :
                            IsSubSeq(AddedEntries(acts, old, i),
                                     RuleEntries(resolved, tag))
                      /\ added <= Len(RuleEntries(resolved, tag))
                      /\ rdErr' = ErrNil
                         => added = Len(RuleEntries(rules, tag))
      ]_vars

\* LoadLCRs stored two rules of one LCR with the same activation time in
\* one activation, the second of them a rule without destination
C33_Witness ==
    /\ rdLast.op = "LoadLCRs"
    /\ rdErr = ErrNil
    /\ "lcr1" \in DOMAIN lcrs
    /\ Len(lcrs["lcr1"]) = 1
    /\ Len(lcrs["lcr1"][1].Entries) = 2
    /\ lcrs["lcr1"][1].Entries[1].DestinationId = "D1"
    /\ lcrs["lcr1"][1].Entries[2].DestinationId = ""

(***************************************************************************)
(* Claims on the references LoadActionPlans resolves                        *)
(***************************************************************************)
\* the action id is in the actions map or, with a store attached, in the
\* store
ActionResolves(id) ==
    \/ id \in actions
    \/ dataStorage # "nil" /\ <<ACTION_PREFIX, id>> \in dbKeys

\* the action timings the step added to the action plan id
AddedTimings(id) ==
    SubSeq(actionPlans'[id].ActionTimings,
           (IF id \in DOMAIN actionPlans
              THEN Len(actionPlans[id].ActionTimings) ELSE 0) + 1,
           Len(actionPlans'[id].ActionTimings))

\* err names an action or a timing of refs that was not found: an action
\* that neither the map nor the store holds, an action that is not in the
\* map and whose lookup in the store failed, or a timing that the map does
\* not hold
NamesMissingReference(err, refs) ==
    \/ /\ err.msg = "[ActionPlans] Could not load the action for tag"
       /\ \E ref \in refs : ref.ActionsId = err.arg
       /\ ~ActionResolves(err.arg)
    \/ /\ err.msg = "[ActionPlans] Error querying actions"
       /\ \E ref \in refs : ref.ActionsId = err.arg
       /\ err.arg \notin actions
       /\ dataStorage # "nil"
    \/ /\ err.msg = "[ActionPlans] Could not load the timing for tag"
       /\ \E ref \in refs : ref.TimingId = err.arg
       /\ err.arg \notin DOMAIN timings

\* C34: LoadActionPlans adds an action timing to a plan only if its action
\* is in the actions map or in the store and its timing is in the timings
\* map; when a row refers to an action or a timing that is not, the call
\* returns an error that names a tag that was not found; on a reader without
\* store and without actions every call that is given rows fails and adds
\* nothing
C34_ActionPlansResolve ==
    [][(apLoads' = apLoads + 1 /\ rdLast'.op = "LoadActionPlans")
       => LET refs == rdLast'.refs
          IN /\ \A id \in DOMAIN actionPlans' :
                   \A n \in 1..Len(AddedTimings(id)) :
                      LET at == AddedTimings(id)[n]
                      IN /\ ActionResolves(at.ActionsID)
                         /\ \E ref \in refs :
                               /\ ref.ActionsId = at.ActionsID
                               /\ ref.TimingId \in DOMAIN timings
                               /\ at.Timing.StartTime
                                     = timings[ref.TimingId].StartTime
             /\ (\E ref \in refs : \/ ~ActionResolves(ref.ActionsId)
                                   \/ ref.TimingId \notin DOMAIN timings)
                => NamesMissingReference(apErr', refs)
             /\ apErr' \notin {ErrNil, ErrIO}
                => NamesMissingReference(apErr', refs)
             /\ (dataStorage = "nil" /\ actions = {} /\ refs # {})
                => /\ apErr'.msg
                        = "[ActionPlans] Could not load the action for tag"
                   /\ actionPlans' = actionPlans
      ]_vars

\* LoadActionPlans was called with rows on a reader without store that has
\* loaded no actions, and returned the error of the missing action
C34_Witness ==
    /\ rdLast.op = "LoadActionPlans"
    /\ rdLast.refs # {}
    /\ dataStorage = "nil"
    /\ actions = {}
    /\ apErr.msg = "[ActionPlans] Could not load the action for tag"
    /\ actionPlans = EmptyMap

(***************************************************************************)
(* Claims on what AddRateInterval leaves alone                              *)
(***************************************************************************)
\* the intervals of is that equal no interval of ris and no earlier
\* interval of is, in the order of is
NewIntervals(ris, is) ==
    LET new == {n \in 1..Len(is) :
                   /\ EqualIn(ris, is[n]) = {}
                   /\ \A m \in 1..(n - 1) : ~Equal(is[m], is[n])}
        Pick[n \in 0..Len(is)] ==
            IF n = 0 THEN <<>>
            ELSE IF n \in new THEN Append(Pick[n - 1], is[n])
            ELSE Pick[n - 1]
    IN Pick[Len(is)]

\* after a call the intervals the bucket held before keep their places,
\* timing and weight; the intervals equal to none are appended after them
\* in the order they were given; an interval of the bucket that equals no
\* added interval is as it was, and one that does has the rates it had
\* first, with rates of the added intervals equal to it after them
BucketKeepsOrder ==
    lastAdd.kind = "add"
    => LET before == lastAdd.before
           is == lastAdd.is
           after == AddedBucket
           new == NewIntervals(before, is)
       IN /\ Len(after) = Len(before) + Len(new)
          /\ \A k \in 1..Len(before) :
                /\ Equal(after[k], before[k])
                /\ IsPrefix(before[k].rates, after[k].rates)
                /\ Range(after[k].rates) \subseteq
                      Range(before[k].rates)
                      \cup UNION {Range(is[n].rates) :
                                     n \in EqualIn(is, before[k])}
                /\ EqualIn(is, before[k]) = {} => after[k] = before[k]
          /\ \A n \in 1..Len(new) :
                /\ Equal(after[Len(before) + n], new[n])
                /\ IsPrefix(new[n].rates, after[Len(before) + n].rates)

\* a call leaves every bucket but the one it is given as it was, and
\* lastAdd.before is that bucket before the call
OtherBucketsUnchanged ==
    lastAdd'.kind = "add"
    => /\ lastAdd'.before = Bucket(ratingPlans[lastAdd'.tag], lastAdd'.dId)
       /\ DOMAIN ratingPlans' = DOMAIN ratingPlans
       /\ \A tag \in DOMAIN ratingPlans :
             \A dId \in DOMAIN ratingPlans'[tag] :
                (tag # lastAdd'.tag \/ dId # lastAdd'.dId)
                => /\ dId \in DOMAIN ratingPlans[tag]
                   /\ ratingPlans'[tag][dId] = ratingPlans[tag][dId]

\* C35: a call of AddRateInterval changes nothing but the bucket it is
\* given; in the bucket the intervals held before keep their relative
\* order, an interval equal to none is appended at the end, a merge extends
\* the rates of the equal interval of the bucket only, and the intervals
\* not equal to an added one keep their rates
C35_AddRateIntervalFrame ==
    /\ []BucketKeepsOrder
    /\ [][OtherBucketsUnchanged]_vars

\* a call added, to a bucket of two intervals, an interval that merged into
\* one of them, whose rates grew, and an interval that was appended, while
\* the other interval stayed as it was
C35_Witness ==
    /\ lastAdd.kind = "add"
    /\ Len(lastAdd.before) = 2
    /\ Len(lastAdd.is) = 2
    /\ Len(AddedBucket) = 3
    /\ Equal(AddedBucket[3], lastAdd.is[2])
    /\ \E k \in 1..2 :
          /\ Equal(AddedBucket[k], lastAdd.is[1])
          /\ Len(AddedBucket[k].rates) > Len(lastAdd.before[k].rates)
          /\ AddedBucket[3 - k] = lastAdd.before[3 - k]

(***************************************************************************)
(* Claims on the records the load-filtered operations build                 *)
(***************************************************************************)
\* the timing LoadActionPlans finds in the timings map for the row, after
\* NewTpReader and a LoadTimings from the same source
TimingOfRow(row) ==
    IF row.TimingId \in DOMAIN NewTpReaderTimings
      THEN NewTpReaderTimings[row.TimingId]
    ELSE GetTPTimings(row.TimingId)[1]

\* C36: the records the load-filtered operations build are those the
\* load-all operations build from the same rows; for the action timings:
\* every action plan LoadAccountActionsFiltered has written holds, for each
\* row of the plan in the source, the ActionTiming that LoadActionPlans
\* builds from that row
C36_SameActionTimings ==
    \A n \in 1..Len(dbLog) :
        (dbLog[n].ok /\ dbLog[n].call.op = "SetActionPlan") =>
            LET rows == GetTPActionPlans(dbLog[n].call.key)
                ats == dbLog[n].call.val.ActionTimings
            IN /\ Len(ats) = Len(rows)
               /\ \A i \in 1..Len(rows) :
                     ats[i] = ActionTiming(rows[i], TimingOfRow(rows[i]))

(***************************************************************************)
(* Claims on the sentinel timings                                          *)
(***************************************************************************)
\* C37: a load operation on a reader whose timings map holds the four
\* sentinel timings of NewTpReader (*any, *asap, *every_minute, *hourly)
\* leaves the four in the map
C37_SentinelTimingsStay ==
    [][(/\ rdLoads' = rdLoads + 1
        /\ DOMAIN NewTpReaderTimings \subseteq DOMAIN timings)
       => DOMAIN NewTpReaderTimings \subseteq DOMAIN timings'
      ]_vars

(***************************************************************************)
(* Claims on the bindings LoadAccountActionsFiltered persists               *)
(***************************************************************************)
\* C38: after a LoadAccountActionsFiltered that returned no error, every
\* action plan it wrote for an account holds the accounts the stored plan
\* had when the binding read it and the account, and the account's stored
\* list of action plans was given the plan
C38_KeepsPersistedBindings ==
    (opPc = "done" /\ opRet = ErrNil) =>
        \A n \in 1..Len(dbLog) :
            (dbLog[n].ok /\ dbLog[n].call.op = "SetActionPlan") =>
                LET id == dbLog[n].call.acc
                    planId == dbLog[n].call.key
                IN /\ dbLog[n].call.val.AccountIDs
                         = StoredAccounts(id) \cup {id}
                   /\ \E m \in 1..Len(dbLog) :
                         /\ dbLog[m].ok
                         /\ dbLog[m].call.op = "SetAccountActionPlans"
                         /\ dbLog[m].call.key = id
                         /\ planId \in Range(dbLog[m].call.val)

(***************************************************************************)
(* C39: a load-all step only fills the maps of the reader and makes no     *)
(* call to the store: when LoadSharedGroups or LoadCdrStats (the filtered  *)
(* load with save = FALSE) has returned, it made no write to the store,    *)
(* and without store it made no call on it.                                *)
(***************************************************************************)
CalledWithoutSave ==
    /\ opPc = "done"
    /\ opIn # <<>>
    /\ opIn[1] \in {"LoadSharedGroupsFiltered", "LoadCdrStatsFiltered"}
    /\ ~opIn[2].save

C39_LoadAllStepWritesNothing ==
    CalledWithoutSave => /\ dbLog = <<>>
                         /\ opRet # Panic("nil store")

====
